---- MODULE Spec2Model ----
(***************************************************************************)
(* Raster-to-vector pipeline of the CAD-image-to-SVG converter: the       *)
(* refiner (svg-refiner.ts), Douglas-Peucker (path-simplification.ts),     *)
(* the contour tracers (image-processor.ts) and the request handler with   *)
(* its skeleton/edge-chain pipeline (route handler).                       *)
(*                                                                         *)
(* Numbers.  Distances of the chamfer transform are kept in thousandths   *)
(* (1 -> 1000, 1.414 -> 1414), so every comparison the code makes on them  *)
(* is an integer comparison.  Point coordinates are kept in half pixels   *)
(* (x = 3 means 1.5), so Math.round is a real rounding.  Ratios            *)
(* (precision, recall, F1, targetAccuracy) are compared by cross           *)
(* multiplication.                                                         *)
(***************************************************************************)
EXTENDS Integers, Sequences, FiniteSets, TLC

VARIABLES
    pc,                 \* position of the running function
    width, height,      \* image size of the call
    edges, dist,        \* computeDistanceTransform: input mask, result
    referenceEdges,     \* reference mask (computeAccuracy, refineConversion)
    svgEdges,           \* rendered mask (computeAccuracy)
    opts,               \* option record of the call
    score,              \* computeAccuracy: result
    points, keep,       \* douglasPeucker: input points, keep flags
    simplified,         \* douglasPeucker: result
    binary, skeleton,   \* zhangSuenThinning: 0/1 input grid, resulting mask
    rethinned,          \* zhangSuenThinning applied to the foreground of skeleton
    paths,              \* refineConversion: the caller's path array
    currentPaths, currentScore, beforeScore, iterationsUsed, iter,
                        \* refineConversion: its locals of the same names
    result,             \* refineConversion: the returned record
    measured,           \* history: the score each iteration started from
    applied,            \* history: <<iteration, strategy>> of each strategy call
    request, response,  \* POST: the request body, the response
    lineColors,         \* POST: the palette (its local of the same name)
    image, cleanedEdges,\* convert: the image, the mask handed to the tracer
    cursor,             \* rasterizePaths: the path and the segment it is at
    line,               \* drawLine: its locals x0, y0, x1, y1, dx, dy, sx, sy, err
    drawn               \* history: the segments drawn, each with the pixels it visited

vars == <<pc, width, height, edges, dist, referenceEdges, svgEdges, opts, score,
          points, keep, simplified, binary, skeleton, rethinned,
          paths, currentPaths, currentScore, beforeScore, iterationsUsed, iter,
          result, measured, applied, request, response, lineColors,
          image, cleanedEdges, cursor, line, drawn>>

dtVars == <<edges, dist>>
accVars == <<referenceEdges, svgEdges, score>>
dpVars == <<points, keep, simplified>>
zsVars == <<binary, skeleton, rethinned>>
rcVars == <<paths, currentPaths, currentScore, beforeScore, iterationsUsed, iter,
            result, measured, applied>>

Idle == <<>>
DTIdle == edges = Idle /\ dist = Idle
AccIdle == referenceEdges = Idle /\ svgEdges = Idle /\ score = Idle
DPIdle == points = Idle /\ keep = Idle /\ simplified = Idle
ZSIdle == binary = Idle /\ skeleton = Idle /\ rethinned = Idle
postVars == <<request, response, lineColors>>
PostIdle == request = Idle /\ response = Idle /\ lineColors = Idle
libVars == <<image, cleanedEdges>>
LibIdle == image = Idle /\ cleanedEdges = Idle
drawVars == <<cursor, line, drawn>>
DrawIdle == cursor = Idle /\ line = Idle /\ drawn = Idle
RCIdle == /\ paths = Idle /\ currentPaths = Idle /\ currentScore = Idle
          /\ beforeScore = Idle /\ iterationsUsed = 0 /\ iter = 0
          /\ result = Idle /\ measured = Idle /\ applied = Idle

----------------------------------------------------------------------------
(* Bounds of the model *)

MaxW == 3
MaxH == 3
MaxCells == 6           \* computeAccuracy: images of at most this many pixels
DPMaxPts == 4           \* douglasPeucker: points of the input polyline
DPMaxX == 2             \* douglasPeucker: largest x (half pixels) of an input point
DPMaxY == 1             \* douglasPeucker: largest y (half pixels) of an input point
ZSMaxCells == 16        \* zhangSuenThinning: grids of at most this many pixels
RCWidth == 4            \* refineConversion: image width
RCHeight == 3           \* refineConversion: image height
RCMaxPts == 4           \* refineConversion: points of an input path
RCMaxIterations == 2    \* refineConversion: largest maxIterations option

----------------------------------------------------------------------------
(* Grids: a width x height buffer is a function on 0 .. width*height-1,    *)
(* indexed y*width + x as in the code.                                     *)

Min2(a, b) == IF a <= b THEN a ELSE b
Max2(a, b) == IF a >= b THEN a ELSE b
Abs(a) == IF a < 0 THEN -a ELSE a

Cells(w, h) == 0 .. (w * h - 1)
Masks(w, h) == [Cells(w, h) -> {0, 255}]
InGrid(x, y, w, h) == x >= 0 /\ x < w /\ y >= 0 /\ y < h

----------------------------------------------------------------------------
(* computeDistanceTransform, svg-refiner.ts 35-100 *)

ORTH == 1000
DIAG == 1414

DTInf(w, h) == (w + h) * ORTH

DTInit(e, w, h) == [i \in Cells(w, h) |-> IF e[i] > 0 THEN 0 ELSE DTInf(w, h)]

DTForwardCell(d, idx, w, h) ==
    LET x == idx % w
        y == idx \div w
        d0 == d[idx]
        d1 == IF y > 0 THEN Min2(d0, d[(y - 1) * w + x] + ORTH) ELSE d0
        d2 == IF x > 0 THEN Min2(d1, d[y * w + (x - 1)] + ORTH) ELSE d1
        d3 == IF y > 0 /\ x > 0 THEN Min2(d2, d[(y - 1) * w + (x - 1)] + DIAG) ELSE d2
        d4 == IF y > 0 /\ x < w - 1 THEN Min2(d3, d[(y - 1) * w + (x + 1)] + DIAG) ELSE d3
    IN  IF d0 = 0 THEN d ELSE [d EXCEPT ![idx] = d4]

DTBackwardCell_NoBottomLeft(d, idx, w, h) ==
    LET x == idx % w
        y == idx \div w
        d0 == d[idx]
        d1 == IF y < h - 1 THEN Min2(d0, d[(y + 1) * w + x] + ORTH) ELSE d0
        d2 == IF x < w - 1 THEN Min2(d1, d[y * w + (x + 1)] + ORTH) ELSE d1
        d3 == IF y < h - 1 /\ x < w - 1 THEN Min2(d2, d[(y + 1) * w + (x + 1)] + DIAG) ELSE d2
    IN  IF d0 = 0 THEN d ELSE [d EXCEPT ![idx] = d3]

DTBackwardCell(d, idx, w, h) ==
    LET x == idx % w
        y == idx \div w
        d0 == d[idx]
        d1 == IF y < h - 1 THEN Min2(d0, d[(y + 1) * w + x] + ORTH) ELSE d0
        d2 == IF x < w - 1 THEN Min2(d1, d[y * w + (x + 1)] + ORTH) ELSE d1
        d3 == IF y < h - 1 /\ x < w - 1 THEN Min2(d2, d[(y + 1) * w + (x + 1)] + DIAG) ELSE d2
        d4 == IF y < h - 1 /\ x > 0 THEN Min2(d3, d[(y + 1) * w + (x - 1)] + DIAG) ELSE d3
    IN  IF d0 = 0 THEN d ELSE [d EXCEPT ![idx] = d4]

RECURSIVE DTForward(_, _, _, _)
DTForward(d, idx, w, h) ==
    IF idx \notin DOMAIN d THEN d          \* past the last cell
    ELSE DTForward(DTForwardCell(d, idx, w, h), idx + 1, w, h)

RECURSIVE DTBackward(_, _, _, _)
DTBackward(d, idx, w, h) ==
    IF idx \notin DOMAIN d THEN d          \* before the first cell
    ELSE DTBackward(DTBackwardCell(d, idx, w, h), idx - 1, w, h)

computeDistanceTransform(e, w, h) ==
    DTBackward(DTForward(DTInit(e, w, h), 0, w, h), w * h - 1, w, h)

----------------------------------------------------------------------------
(* Specification of a computeDistanceTransform call on any mask of any    *)
(* size up to MaxW x MaxH.                                                 *)

InitDT ==
    /\ pc = "dt:start"
    /\ width \in 1 .. MaxW
    /\ height \in 1 .. MaxH
    /\ edges \in Masks(width, height)
    /\ dist = Idle
    /\ opts = Idle
    /\ AccIdle /\ DPIdle /\ ZSIdle /\ RCIdle /\ PostIdle /\ LibIdle /\ DrawIdle

DistanceTransform ==
    /\ pc = "dt:start"
    /\ dist' = computeDistanceTransform(edges, width, height)
    /\ pc' = "dt:done"
    /\ UNCHANGED <<width, height, edges, opts, accVars, dpVars, zsVars, rcVars, postVars, libVars, drawVars>>

NextDT == DistanceTransform

SpecDT == InitDT /\ [][NextDT]_vars

(* Least cost of an 8-connected path to a source pixel, by relaxing every  *)
(* cell against its eight neighbours, sweep after sweep, until a sweep      *)
(* changes nothing.                                                        *)
Unreached(w, h) == (w * h + 1) * DIAG

SetMin(S) == CHOOSE m \in S : \A k \in S : m <= k

NeighbourCosts(D, idx, w, h) ==
    LET x == idx % w
        y == idx \div w
    IN  { D[(y + dy) * w + (x + dx)] + (IF dx # 0 /\ dy # 0 THEN DIAG ELSE ORTH) :
            <<dx, dy>> \in { o \in {-1, 0, 1} \X {-1, 0, 1} :
                              /\ o # <<0, 0>>
                              /\ InGrid(x + o[1], y + o[2], w, h) } }

RECURSIVE RelaxSweep(_, _, _, _)
RelaxSweep(D, idx, w, h) ==
    IF idx >= w * h THEN D
    ELSE RelaxSweep([D EXCEPT ![idx] = SetMin({D[idx]} \cup NeighbourCosts(D, idx, w, h))],
                    idx + 1, w, h)

RECURSIVE RelaxFix(_, _, _)
RelaxFix(D, w, h) ==
    LET N == RelaxSweep(D, 0, w, h)
    IN  IF N = D THEN D ELSE RelaxFix(N, w, h)

LeastPathCost(e, w, h) ==
    RelaxFix([i \in Cells(w, h) |-> IF e[i] > 0 THEN 0 ELSE Unreached(w, h)], w, h)

HasSource(e) == \E i \in DOMAIN e : e[i] > 0

(* C10: on a mask with at least one set pixel the transform is            *)
(* non-negative, 0 exactly at the set pixels, and at every other pixel the *)
(* least cost of an 8-connected path to a set pixel (1 per orthogonal      *)
(* step, 1.414 per diagonal step).                                         *)
C10_DistanceTransformExact ==
    (pc = "dt:done" /\ HasSource(edges)) =>
        LET least == LeastPathCost(edges, width, height)
        IN  \A i \in Cells(width, height) :
                /\ dist[i] >= 0
                /\ (dist[i] = 0) <=> (edges[i] > 0)
                /\ dist[i] = least[i]

(* A pixel two steps (one orthogonal, one diagonal) from its only source,  *)
(* which lies below and to the right of it: the backward pass decides it.  *)
C10_Witness ==
    /\ pc = "dt:done"
    /\ \E s \in Cells(width, height) :
          /\ \A i \in Cells(width, height) : (edges[i] > 0) <=> (i = s)
          /\ \E i \in Cells(width, height) :
                /\ i < s
                /\ dist[i] = ORTH + DIAG

----------------------------------------------------------------------------
(* computeAccuracy, svg-refiner.ts 188-245.  A ratio is a pair             *)
(* <<numerator, denominator>>; a division by zero gives NaN, as it does    *)
(* for 0/0 in the code's arithmetic.                                        *)

NaN == "NaN"
Zero == <<0, 1>>
Div(n, d) == IF d = 0 THEN NaN ELSE <<n, d>>

RECURSIVE SumDist(_, _, _, _)
SumDist(mask, dt, idx, size) ==
    IF idx >= size THEN 0
    ELSE (IF mask[idx] > 0 THEN dt[idx] ELSE 0) + SumDist(mask, dt, idx + 1, size)

Precision_Unguarded(svgMatchedPixels, totalSvgPixels) ==
    Div(svgMatchedPixels, totalSvgPixels)

Precision(svgMatchedPixels, totalSvgPixels) ==
    IF totalSvgPixels > 0 THEN Div(svgMatchedPixels, totalSvgPixels) ELSE Zero

Recall(refMatchedPixels, totalRefPixels) ==
    IF totalRefPixels > 0 THEN Div(refMatchedPixels, totalRefPixels) ELSE Zero

(* 2 * (p * r) / (p + r) on ratios p = a/b, r = c/d is 2ac / (ad + cb). *)
F1Score(p, r) ==
    IF p = NaN \/ r = NaN THEN NaN
    ELSE IF p[1] * r[2] + r[1] * p[2] > 0
         THEN Div(2 * p[1] * r[1], p[1] * r[2] + r[1] * p[2])
         ELSE Zero

computeAccuracy(ref, svg, w, h, distanceTolerance) ==
    LET refDistTransform == computeDistanceTransform(ref, w, h)
        svgDistTransform == computeDistanceTransform(svg, w, h)
        size == w * h
        totalSvgPixels == Cardinality({i \in Cells(w, h) : svg[i] > 0})
        totalRefPixels == Cardinality({i \in Cells(w, h) : ref[i] > 0})
        svgMatchedPixels ==
            Cardinality({i \in Cells(w, h) :
                            svg[i] > 0 /\ refDistTransform[i] <= distanceTolerance})
        refMatchedPixels ==
            Cardinality({i \in Cells(w, h) :
                            ref[i] > 0 /\ svgDistTransform[i] <= distanceTolerance})
        totalDistance == SumDist(svg, refDistTransform, 0, size)
        precision == Precision(svgMatchedPixels, totalSvgPixels)
        recall == Recall(refMatchedPixels, totalRefPixels)
    IN  [ precision |-> precision,
          recall |-> recall,
          f1Score |-> F1Score(precision, recall),
          meanDistanceError |->
              IF totalSvgPixels > 0 THEN Div(totalDistance, totalSvgPixels) ELSE Zero,
          matchedPixels |-> svgMatchedPixels,
          totalSvgPixels |-> totalSvgPixels,
          totalRefPixels |-> totalRefPixels ]

(* Comparisons of ratios with positive denominators. *)
RatLeq(a, b) == a[1] * b[2] <= b[1] * a[2]
RatLess(a, b) == a[1] * b[2] < b[1] * a[2]
IsRatio(a) == a # NaN /\ a[2] > 0
InUnit(a) == IsRatio(a) /\ a[1] >= 0 /\ a[1] <= a[2]
IsZero(a) == IsRatio(a) /\ a[1] = 0

(* Specification of a computeAccuracy call on any two masks of any size of *)
(* at most MaxCells pixels, for tolerances 0, 1, 1.5 and 2 pixels.         *)
ToleranceSet == {0, 1000, 1500, 2000}

InitAcc ==
    /\ pc = "acc:start"
    /\ width \in 1 .. MaxCells
    /\ height \in 1 .. MaxCells
    /\ width * height <= MaxCells
    /\ referenceEdges \in Masks(width, height)
    /\ svgEdges \in Masks(width, height)
    /\ opts \in [distanceTolerance : ToleranceSet]
    /\ score = Idle
    /\ DTIdle /\ DPIdle /\ ZSIdle /\ RCIdle /\ PostIdle /\ LibIdle /\ DrawIdle

Accuracy ==
    /\ pc = "acc:start"
    /\ score' = computeAccuracy(referenceEdges, svgEdges, width, height,
                                opts.distanceTolerance)
    /\ pc' = "acc:done"
    /\ UNCHANGED <<width, height, referenceEdges, svgEdges, opts, dtVars, dpVars, zsVars, rcVars, postVars, libVars, drawVars>>

NextAcc == Accuracy

SpecAcc == InitAcc /\ [][NextAcc]_vars

(* C5: precision, recall and F1 are numbers in [0, 1] (never NaN, also     *)
(* when a denominator is zero, where the metric is 0), and F1 = 0 exactly  *)
(* when precision = 0 or recall = 0.                                       *)
C5_AccuracyBounds ==
    pc = "acc:done" =>
        /\ InUnit(score.precision)
        /\ InUnit(score.recall)
        /\ InUnit(score.f1Score)
        /\ IsZero(score.f1Score) <=> (IsZero(score.precision) \/ IsZero(score.recall))
        /\ score.totalSvgPixels = 0 => IsZero(score.precision)
        /\ score.totalRefPixels = 0 => IsZero(score.recall)
        /\ (IsZero(score.precision) /\ IsZero(score.recall)) => IsZero(score.f1Score)

(* No rendered pixel at all while the reference has some: the precision    *)
(* denominator and the F1 denominator are both zero.                       *)
C5_Witness ==
    /\ pc = "acc:done"
    /\ score.totalSvgPixels = 0
    /\ score.totalRefPixels > 0
    /\ score.f1Score = Zero

----------------------------------------------------------------------------
(* douglasPeucker, path-simplification.ts 15-105 (the route handler holds  *)
(* the same algorithm with the recursion as an inner function).  A point   *)
(* is [x, y] in half pixels.  perpendicularDistance is kept squared, as a  *)
(* ratio <<n, d>> in squared half pixels; a tolerance is a ratio           *)
(* <<tn, td>> in pixels.                                                   *)

Pt(x, y) == [x |-> x, y |-> y]

perpendicularDistanceSq(point, lineStart, lineEnd) ==
    LET dx == lineEnd.x - lineStart.x
        dy == lineEnd.y - lineStart.y
        lineLengthSq == dx * dx + dy * dy
        ax == point.x - lineStart.x
        ay == point.y - lineStart.y
        bx == point.x - lineEnd.x
        by == point.y - lineEnd.y
        dot == ax * dx + ay * dy          \* t = dot / lineLengthSq
        cross == ax * dy - ay * dx
    IN  IF lineLengthSq = 0 THEN <<ax * ax + ay * ay, 1>>
        ELSE IF dot < 0 THEN <<ax * ax + ay * ay, 1>>
        ELSE IF dot > lineLengthSq THEN <<bx * bx + by * by, 1>>
        ELSE <<cross * cross, lineLengthSq>>

(* dist > tolerance, for dist the root of distSq half pixels *)
ExceedsTolerance(distSq, tolerance) ==
    distSq[1] * tolerance[2] * tolerance[2] > 4 * distSq[2] * tolerance[1] * tolerance[1]

(* The scan for the farthest point: <<maxDistSq, maxIndex>> after looking  *)
(* at the points i .. endIndex-1.                                          *)
RECURSIVE DPFarthest(_, _, _, _, _)
DPFarthest(pts, startIndex, endIndex, i, best) ==
    IF i >= endIndex THEN best
    ELSE LET d == perpendicularDistanceSq(pts[i], pts[startIndex], pts[endIndex])
         IN  DPFarthest(pts, startIndex, endIndex, i + 1,
                        IF RatLess(best[1], d) THEN <<d, i>> ELSE best)

(* the recursion without its second half *)
RECURSIVE douglasPeuckerRecursive_LeftOnly(_, _, _, _, _)
douglasPeuckerRecursive_LeftOnly(pts, startIndex, endIndex, tolerance, kp) ==
    IF endIndex <= startIndex + 1 THEN kp
    ELSE LET best == DPFarthest(pts, startIndex, endIndex, startIndex + 1,
                                <<Zero, startIndex>>)
             maxIndex == best[2]
         IN  IF ExceedsTolerance(best[1], tolerance)
             THEN douglasPeuckerRecursive_LeftOnly(pts, startIndex, maxIndex, tolerance,
                                                   [kp EXCEPT ![maxIndex] = TRUE])
             ELSE kp

RECURSIVE douglasPeuckerRecursive(_, _, _, _, _)
douglasPeuckerRecursive(pts, startIndex, endIndex, tolerance, kp) ==
    IF endIndex <= startIndex + 1 THEN kp
    ELSE LET best == DPFarthest(pts, startIndex, endIndex, startIndex + 1,
                                <<Zero, startIndex>>)
             maxIndex == best[2]
         IN  IF ExceedsTolerance(best[1], tolerance)
             THEN LET k1 == [kp EXCEPT ![maxIndex] = TRUE]
                      k2 == douglasPeuckerRecursive(pts, startIndex, maxIndex, tolerance, k1)
                  IN  douglasPeuckerRecursive(pts, maxIndex, endIndex, tolerance, k2)
             ELSE kp

(* The keep flags douglasPeucker ends with (all TRUE below 3 points, where *)
(* it returns a copy).                                                     *)
DPKeep(pts, tolerance) ==
    IF Len(pts) < 3 THEN [i \in 1 .. Len(pts) |-> TRUE]
    ELSE douglasPeuckerRecursive(pts, 1, Len(pts), tolerance,
                                 [i \in 1 .. Len(pts) |-> i = 1 \/ i = Len(pts)])

RECURSIVE FilterKept(_, _, _)
FilterKept(pts, kp, i) ==
    IF i > Len(pts) THEN <<>>
    ELSE (IF kp[i] THEN <<pts[i]>> ELSE <<>>) \o FilterKept(pts, kp, i + 1)

douglasPeucker(pts, tolerance) == FilterKept(pts, DPKeep(pts, tolerance), 1)

(* Specification of a douglasPeucker call on any polyline of at most       *)
(* DPMaxPts points of the lattice, for tolerances 0, 0.5 and 1 pixel.      *)
DPLattice == { Pt(x, y) : x \in 0 .. DPMaxX, y \in 0 .. DPMaxY }
DPTolerances == { <<0, 1>>, <<1, 2>>, <<1, 1>> }

RECURSIVE SeqsUpTo(_, _)
SeqsUpTo(S, n) ==
    IF n = 0 THEN {<<>>}
    ELSE LET shorter == SeqsUpTo(S, n - 1)
         IN  shorter \cup { Append(q, e) : q \in {r \in shorter : Len(r) = n - 1}, e \in S }

InitDP ==
    /\ pc = "dp:start"
    /\ points \in SeqsUpTo(DPLattice, DPMaxPts)
    /\ opts \in [tolerance : DPTolerances]
    /\ keep = Idle /\ simplified = Idle
    /\ width = 0 /\ height = 0
    /\ DTIdle /\ AccIdle /\ ZSIdle /\ RCIdle /\ PostIdle /\ LibIdle /\ DrawIdle

Simplify ==
    /\ pc = "dp:start"
    /\ keep' = DPKeep(points, opts.tolerance)
    /\ simplified' = douglasPeucker(points, opts.tolerance)
    /\ pc' = "dp:done"
    /\ UNCHANGED <<width, height, opts, points, dtVars, accVars, zsVars, rcVars, postVars, libVars, drawVars>>

NextDP == Simplify

SpecDP == InitDP /\ [][NextDP]_vars

KeptIndices == { i \in DOMAIN keep : keep[i] }

(* the increasing enumeration of a finite set of integers *)
RECURSIVE Ascending(_)
Ascending(S) ==
    IF S = {} THEN <<>>
    ELSE LET m == SetMin(S) IN <<m>> \o Ascending(S \ {m})

(* C8: the result is the input restricted to an increasing set of indices  *)
(* that holds the first and the last index, and every removed point is     *)
(* within the tolerance of the segment joining the nearest kept points on  *)
(* either side of it.                                                      *)
C8_DouglasPeuckerBound ==
    pc = "dp:done" =>
        LET n == Len(points)
            K == Ascending(KeptIndices)
        IN  /\ Len(simplified) = Len(K)
            /\ \A j \in 1 .. Len(K) : simplified[j] = points[K[j]]
            /\ n >= 1 => (1 \in KeptIndices /\ n \in KeptIndices)
            /\ \A i \in (1 .. n) \ KeptIndices :
                  LET a == CHOOSE k \in KeptIndices :
                               k < i /\ \A m \in KeptIndices : m < i => m <= k
                      b == CHOOSE k \in KeptIndices :
                               k > i /\ \A m \in KeptIndices : m > i => m >= k
                  IN  ~ExceedsTolerance(
                          perpendicularDistanceSq(points[i], points[a], points[b]),
                          opts.tolerance)

(* A polyline of four points where the recursion split once: an interior   *)
(* point was kept and another one removed.                                 *)
C8_Witness ==
    /\ pc = "dp:done"
    /\ Len(points) = 4
    /\ Len(simplified) = 3
    /\ opts.tolerance # <<0, 1>>

----------------------------------------------------------------------------
(* zhangSuenThinning, route handler 300-408.  The grid holds 0/1 while it  *)
(* is thinned and is multiplied by 255 at the end.                         *)

ZSGetPixel(sk, x, y, w, h) ==
    IF x < 0 \/ x >= w \/ y < 0 \/ y >= h THEN 0 ELSE sk[y * w + x]

(* p2 .. p9: the eight neighbours clockwise from north, as a sequence      *)
ZSNeighbours(sk, x, y, w, h) ==
    << ZSGetPixel(sk, x, y - 1, w, h),     ZSGetPixel(sk, x + 1, y - 1, w, h),
       ZSGetPixel(sk, x + 1, y, w, h),     ZSGetPixel(sk, x + 1, y + 1, w, h),
       ZSGetPixel(sk, x, y + 1, w, h),     ZSGetPixel(sk, x - 1, y + 1, w, h),
       ZSGetPixel(sk, x - 1, y, w, h),     ZSGetPixel(sk, x - 1, y - 1, w, h) >>

ZSTransitions(n) ==
    Cardinality({ k \in 1 .. 8 : n[k] = 0 /\ n[(k % 8) + 1] = 1 })

ZSSum(n) == n[1] + n[2] + n[3] + n[4] + n[5] + n[6] + n[7] + n[8]

(* the test of sub-iteration 1 or 2 on the pixel (x, y); n[1] is p2,       *)
(* n[3] is p4, n[5] is p6, n[7] is p8                                      *)
ZSMatches(sk, x, y, w, h, step) ==
    LET n == ZSNeighbours(sk, x, y, w, h)
        A == ZSTransitions(n)
        B == ZSSum(n)
        m1 == IF step = 1 THEN n[1] * n[3] * n[5] ELSE n[1] * n[3] * n[7]
        m2 == IF step = 1 THEN n[3] * n[5] * n[7] ELSE n[1] * n[5] * n[7]
    IN  /\ ZSGetPixel(sk, x, y, w, h) # 0
        /\ A = 1 /\ B >= 2 /\ B <= 6 /\ m1 = 0 /\ m2 = 0

ZSPixelsToRemove(sk, w, h, step) ==
    { y * w + x : <<x, y>> \in { c \in (1 .. w - 2) \X (1 .. h - 2) :
                                   ZSMatches(sk, c[1], c[2], w, h, step) } }

RECURSIVE ZSClear(_, _)
ZSClear(sk, S) ==
    IF S = {} THEN sk
    ELSE LET i == CHOOSE j \in S : TRUE
         IN  ZSClear([sk EXCEPT ![i] = 0], S \ {i})

(* the loop body run once, without repeating while something changed *)
ZSLoop_Once(sk, w, h) ==
    LET r1 == ZSPixelsToRemove(sk, w, h, 1)
        s1 == ZSClear(sk, r1)
        r2 == ZSPixelsToRemove(s1, w, h, 2)
    IN  ZSClear(s1, r2)

(* one pass of the while loop, and the loop *)
RECURSIVE ZSLoop(_, _, _)
ZSLoop(sk, w, h) ==
    LET r1 == ZSPixelsToRemove(sk, w, h, 1)
        s1 == ZSClear(sk, r1)
        r2 == ZSPixelsToRemove(s1, w, h, 2)
        s2 == ZSClear(s1, r2)
    IN  IF r1 # {} \/ r2 # {} THEN ZSLoop(s2, w, h) ELSE s2

zhangSuenThinning(bin, w, h) ==
    LET sk == ZSLoop(bin, w, h)
    IN  [i \in Cells(w, h) |-> sk[i] * 255]

(* binarize leaves 1 on line material; the same on a mask *)
Foreground(mask) == [i \in DOMAIN mask |-> IF mask[i] > 0 THEN 1 ELSE 0]

(* Specification: thin any 0/1 grid of at most ZSMaxCells pixels, then     *)
(* thin the foreground of the result again.                                *)
InitZS ==
    /\ pc = "zs:start"
    /\ width \in 1 .. ZSMaxCells
    /\ height \in 1 .. ZSMaxCells
    /\ width * height <= ZSMaxCells
    /\ binary \in [Cells(width, height) -> {0, 1}]
    /\ skeleton = Idle /\ rethinned = Idle
    /\ opts = Idle
    /\ DTIdle /\ AccIdle /\ DPIdle /\ RCIdle /\ PostIdle /\ LibIdle /\ DrawIdle

Thin ==
    /\ pc = "zs:start"
    /\ skeleton' = zhangSuenThinning(binary, width, height)
    /\ pc' = "zs:thinned"
    /\ UNCHANGED <<width, height, opts, binary, rethinned, dtVars, accVars, dpVars, rcVars, postVars, libVars, drawVars>>

ThinAgain ==
    /\ pc = "zs:thinned"
    /\ rethinned' = zhangSuenThinning(Foreground(skeleton), width, height)
    /\ pc' = "zs:rethinned"
    /\ UNCHANGED <<width, height, opts, binary, skeleton, dtVars, accVars, dpVars, rcVars, postVars, libVars, drawVars>>

NextZS == Thin \/ ThinAgain

SpecZS == InitZS /\ [][NextZS]_vars

(* C9: thinning the foreground of a thinned mask gives that mask again.    *)
C9_SkeletonIdempotent ==
    pc = "zs:rethinned" => rethinned = skeleton

(* The first thinning removed line material, in more than one pass of its  *)
(* loop, and the second thinning has run.                                  *)
C9_Witness ==
    /\ pc = "zs:rethinned"
    /\ Cardinality({i \in Cells(width, height) : binary[i] = 1 /\ skeleton[i] = 0}) >= 2
    /\ LET r1 == ZSPixelsToRemove(binary, width, height, 1)
           s1 == ZSClear(binary, r1)
           r2 == ZSPixelsToRemove(s1, width, height, 2)
       IN  Foreground(skeleton) # ZSClear(s1, r2)

----------------------------------------------------------------------------
(* rasterizePaths and drawLine, svg-refiner.ts 111-173.  A path is a       *)
(* record [points, closed, color, id]; strokeWidth plays no part in the    *)
(* refiner.                                                                *)

(* Math.round of a coordinate held in half pixels *)
Round(c) == (c + 1) \div 2

(* the while loop of drawLine from the pixel (x0, y0) on; l holds the      *)
(* values fixed before the loop: x1, y1, dx, dy, sx, sy                    *)
RECURSIVE drawLineLoop(_, _, _, _, _, _, _)
drawLineLoop(buffer, w, h, x0, y0, err, l) ==
    LET marked == IF InGrid(x0, y0, w, h)
                  THEN [buffer EXCEPT ![y0 * w + x0] = 255]
                  ELSE buffer
        e2 == 2 * err
        stepX == e2 > -l.dy
        stepY == e2 < l.dx
    IN  IF x0 = l.x1 /\ y0 = l.y1 THEN marked
        ELSE drawLineLoop(marked, w, h,
                          IF stepX THEN x0 + l.sx ELSE x0,
                          IF stepY THEN y0 + l.sy ELSE y0,
                          err - (IF stepX THEN l.dy ELSE 0) + (IF stepY THEN l.dx ELSE 0),
                          l)

drawLine(buffer, w, h, p0, p1) ==
    LET x0 == Round(p0.x)
        y0 == Round(p0.y)
        x1 == Round(p1.x)
        y1 == Round(p1.y)
        dx == Abs(x1 - x0)
        dy == Abs(y1 - y0)
    IN  drawLineLoop(buffer, w, h, x0, y0, dx - dy,
                     [x1 |-> x1, y1 |-> y1, dx |-> dx, dy |-> dy,
                      sx |-> IF x0 < x1 THEN 1 ELSE -1,
                      sy |-> IF y0 < y1 THEN 1 ELSE -1])

RECURSIVE drawSegments(_, _, _, _, _)
drawSegments(buffer, w, h, pts, i) ==
    IF i >= Len(pts) THEN buffer
    ELSE drawSegments(drawLine(buffer, w, h, pts[i], pts[i + 1]), w, h, pts, i + 1)

drawPath(buffer, w, h, path) ==
    LET pts == path.points
    IN  IF Len(pts) < 2 THEN buffer
        ELSE LET open == drawSegments(buffer, w, h, pts, 1)
             IN  IF path.closed /\ Len(pts) > 2
                 THEN drawLine(open, w, h, pts[Len(pts)], pts[1])
                 ELSE open

RECURSIVE drawPaths(_, _, _, _, _)
drawPaths(buffer, w, h, ps, k) ==
    IF k > Len(ps) THEN buffer
    ELSE drawPaths(drawPath(buffer, w, h, ps[k]), w, h, ps, k + 1)

EmptyMask(w, h) == [i \in Cells(w, h) |-> 0]

rasterizePaths(ps, w, h) == drawPaths(EmptyMask(w, h), w, h, ps, 1)

----------------------------------------------------------------------------
(* snapPathsToEdges, svg-refiner.ts 255-302 *)

RefSet(ref, x, y, w, h) == InGrid(x, y, w, h) /\ ref[y * w + x] > 0

(* the offsets <<dx, dy>> of the square of the given radius whose pixel is *)
(* a reference pixel                                                       *)
RefOffsets(ref, px, py, w, h, radius) ==
    { o \in (-radius .. radius) \X (-radius .. radius) :
          RefSet(ref, px + o[1], py + o[2], w, h) }

(* the scan is dy-major and replaces the best only on a smaller distance:  *)
(* the result is the least offset by (distance, dy, dx)                    *)
(* a scan that runs column by column: among equals the least dx wins *)
ScanBefore_ColumnMajor(a, b) ==
    LET da == a[1] * a[1] + a[2] * a[2]
        db == b[1] * b[1] + b[2] * b[2]
    IN  \/ da < db
        \/ da = db /\ a[1] < b[1]
        \/ da = db /\ a[1] = b[1] /\ a[2] <= b[2]

ScanBefore(a, b) ==
    LET da == a[1] * a[1] + a[2] * a[2]
        db == b[1] * b[1] + b[2] * b[2]
    IN  \/ da < db
        \/ da = db /\ a[2] < b[2]
        \/ da = db /\ a[2] = b[2] /\ a[1] <= b[1]

snapPoint(point, ref, w, h, snapRadius) ==
    LET px == Round(point.x)
        py == Round(point.y)
        found == RefOffsets(ref, px, py, w, h, snapRadius)
    IN  IF RefSet(ref, px, py, w, h) THEN point
        ELSE IF found = {} THEN point
        ELSE LET best == CHOOSE o \in found : \A q \in found : ScanBefore(o, q)
             IN  Pt(2 * (px + best[1]), 2 * (py + best[2]))

snapPathsToEdges(ps, ref, w, h, snapRadius) ==
    [k \in 1 .. Len(ps) |->
        [ps[k] EXCEPT !.points =
            [j \in 1 .. Len(ps[k].points) |->
                snapPoint(ps[k].points[j], ref, w, h, snapRadius)]]]

----------------------------------------------------------------------------
(* removeSpuriousPaths, svg-refiner.ts 308-350 *)

CheckRadius == 2

PointUnmatched(point, ref, w, h) ==
    RefOffsets(ref, Round(point.x), Round(point.y), w, h, CheckRadius) = {}

(* the filter's verdict on one path; the threshold is a ratio <<n, d>> *)
KeepsPath(path, ref, w, h, spuriousThreshold) ==
    LET pts == path.points
        totalChecked == Len(pts)
        unmatchedCount ==
            Cardinality({ j \in 1 .. Len(pts) : PointUnmatched(pts[j], ref, w, h) })
    IN  IF Len(pts) < 3 THEN FALSE
        ELSE unmatchedCount * spuriousThreshold[2] < spuriousThreshold[1] * totalChecked

RECURSIVE FilterPaths(_, _, _, _, _, _)
FilterPaths(ps, k, ref, w, h, spuriousThreshold) ==
    IF k > Len(ps) THEN <<>>
    ELSE (IF KeepsPath(ps[k], ref, w, h, spuriousThreshold) THEN <<ps[k]>> ELSE <<>>)
         \o FilterPaths(ps, k + 1, ref, w, h, spuriousThreshold)

removeSpuriousPaths(ps, ref, w, h, spuriousThreshold) ==
    FilterPaths(ps, 1, ref, w, h, spuriousThreshold)

----------------------------------------------------------------------------
(* adaptiveResimplify, svg-refiner.ts 488-524 *)

HalfPixel == <<1, 2>>       \* the tolerance 0.5 of the re-simplification

resimplifyPath(path, refDistTransform, w, h, checkRadius) ==
    LET pts == path.points
        valid == { j \in 1 .. Len(pts) : InGrid(Round(pts[j].x), Round(pts[j].y), w, h) }
        errorAt(j) == refDistTransform[Round(pts[j].y) * w + Round(pts[j].x)]
        RECURSIVE SumErrors(_)
        SumErrors(j) ==
            IF j > Len(pts) THEN 0
            ELSE (IF j \in valid THEN errorAt(j) ELSE 0) + SumErrors(j + 1)
    IN  IF Len(pts) < 4 THEN path
        ELSE IF valid = {} THEN path
        ELSE IF SumErrors(1) > checkRadius * Cardinality(valid)
             THEN [path EXCEPT !.points = douglasPeucker(pts, HalfPixel)]
             ELSE path

adaptiveResimplify(ps, ref, w, h, checkRadius) ==
    LET refDistTransform == computeDistanceTransform(ref, w, h)
    IN  [k \in 1 .. Len(ps) |-> resimplifyPath(ps[k], refDistTransform, w, h, checkRadius)]

----------------------------------------------------------------------------
(* Moore tracing and detectContours, image-processor.ts 860-982, 1344-1357, *)
(* 1430-1436, 1497-1565.  A contour is [points, isClosed, area]; the        *)
(* bounding box, the perimeter and isHole are not read by the refiner.      *)
(* Points are half pixels, so a traced pixel (x, y) is Pt(2x, 2y) and the   *)
(* shoelace sum is 8 times the area in square pixels.                       *)

Directions ==
    << <<1, 0>>, <<1, 1>>, <<0, 1>>, <<-1, 1>>, <<-1, 0>>, <<-1, -1>>, <<0, -1>>, <<1, -1>> >>

NoDirection == 8

(* the for loop over the eight directions from startDir: the first         *)
(* direction with a set pixel in the image, NoDirection if there is none    *)
RECURSIVE MooreNextDir(_, _, _, _, _, _, _)
MooreNextDir(bin, w, h, x, y, startDir, i) ==
    IF i = 8 THEN NoDirection
    ELSE LET checkDir == (startDir + i) % 8
             nx == x + Directions[checkDir + 1][1]
             ny == y + Directions[checkDir + 1][2]
         IN  IF InGrid(nx, ny, w, h) /\ bin[ny * w + nx] > 0
             THEN checkDir
             ELSE MooreNextDir(bin, w, h, x, y, startDir, i + 1)

(* the do-while loop of traceMooreContour *)
RECURSIVE traceMooreLoop(_, _, _, _, _, _, _, _, _)
traceMooreLoop(bin, w, h, x, y, dir, firstStep, pts, start) ==
    LET pushed == Append(pts, Pt(2 * x, 2 * y))
        found == MooreNextDir(bin, w, h, x, y, (dir + 5) % 8, 0)
    IN  IF found = NoDirection THEN pushed
        ELSE LET nx == x + Directions[found + 1][1]
                 ny == y + Directions[found + 1][2]
             IN  IF ~firstStep /\ nx = start[1] /\ ny = start[2] THEN pushed
                 ELSE IF Len(pushed) < w * h
                      THEN traceMooreLoop(bin, w, h, nx, ny, found, FALSE, pushed, start)
                      ELSE pushed

(* Sum of x_i * y_j - x_j * y_i over the edges of the closed polygon *)
RECURSIVE ShoelaceSum(_, _)
ShoelaceSum(pts, i) ==
    IF i > Len(pts) THEN 0
    ELSE LET j == (i % Len(pts)) + 1
         IN  pts[i].x * pts[j].y - pts[j].x * pts[i].y + ShoelaceSum(pts, i + 1)

(* 8 * area in square pixels *)
calculateContourArea8(pts) ==
    IF Len(pts) < 3 THEN 0 ELSE Abs(ShoelaceSum(pts, 1))

traceMooreContour(bin, w, h, startX, startY) ==
    LET pts == traceMooreLoop(bin, w, h, startX, startY, 0, TRUE, <<>>, <<startX, startY>>)
    IN  [points |-> pts, isClosed |-> Len(pts) >= 3, area8 |-> calculateContourArea8(pts)]

(* the pixels a trace marks visited *)
VisitedBy(pts, w) == { (pts[j].y \div 2) * w + (pts[j].x \div 2) : j \in 1 .. Len(pts) }

(* the scan of mooreContourTracing from the pixel idx on: the next pixel    *)
(* the scan traces from is the first foreground pixel not yet visited      *)
(* whose left neighbour is background                                      *)
RECURSIVE mooreScan(_, _, _, _, _)
mooreScan(bin, w, h, idx, visited) ==
    LET starts == { i \in idx .. w * h - 1 :
                      /\ bin[i] # 0
                      /\ i \notin visited
                      /\ ~(i % w > 0 /\ bin[i - 1] > 0) }
    IN  IF starts = {} THEN <<>>
        ELSE LET first == SetMin(starts)
                 contour == traceMooreContour(bin, w, h, first % w, first \div w)
                 rest == mooreScan(bin, w, h, first + 1,
                                   visited \cup VisitedBy(contour.points, w))
             IN  IF Len(contour.points) >= 3 THEN <<contour>> \o rest ELSE rest

mooreContourTracing(bin, w, h) == mooreScan(bin, w, h, 0, {})

RECURSIVE SelectContours(_, _, _)
SelectContours(contours, k, minArea) ==
    IF k > Len(contours) THEN <<>>
    ELSE (IF contours[k].area8 >= 8 * minArea THEN <<contours[k]>> ELSE <<>>)
         \o SelectContours(contours, k + 1, minArea)

(* maxArea is left at its default, Infinity *)
filterContoursByArea(contours, minArea) == SelectContours(contours, 1, minArea)

(* the decimation loop: the interior points from i on that are at least     *)
(* the tolerance <<tn, td>> away from the last point kept                   *)
RECURSIVE Decimate(_, _, _, _)
Decimate(pts, i, lastPoint, tolerance) ==
    IF i >= Len(pts) THEN <<>>
    ELSE LET ddx == pts[i].x - lastPoint.x
             ddy == pts[i].y - lastPoint.y
         IN  IF (ddx * ddx + ddy * ddy) * tolerance[2] * tolerance[2]
                    >= 4 * tolerance[1] * tolerance[1]
             THEN <<pts[i]>> \o Decimate(pts, i + 1, pts[i], tolerance)
             ELSE Decimate(pts, i + 1, lastPoint, tolerance)

simplifyContour(pts, tolerance) ==
    IF Len(pts) < 3 THEN pts
    ELSE <<pts[1]>> \o Decimate(pts, 2, pts[1], tolerance) \o <<pts[Len(pts)]>>

ContourMethods == {"moore", "suzuki", "marching-squares"}

(* the outcome of a call that can throw *)
Returned(value) == [thrown |-> FALSE, value |-> value]
Thrown(message) == [thrown |-> TRUE, message |-> message]

(* detectContours with the Moore tracer, or with a selector outside the     *)
(* enumerated methods; the Suzuki and marching-squares tracers are not part *)
(* of this model.                                                           *)
detectContours(bin, w, h, options) ==
    CASE options.method = "moore" ->
             LET contours == filterContoursByArea(mooreContourTracing(bin, w, h),
                                                  options.minArea)
             IN  Returned(IF options.simplify
                          THEN [k \in 1 .. Len(contours) |->
                                   [contours[k] EXCEPT
                                       !.points = simplifyContour(@, options.tolerance)]]
                          ELSE contours)
      [] options.method \notin ContourMethods ->
             Thrown("Unknown contour detection method")

----------------------------------------------------------------------------
(* fillGaps and findConnectedComponents, svg-refiner.ts 357-482 *)

Adjacent8(i, j, w) ==
    i # j /\ Abs((i % w) - (j % w)) <= 1 /\ Abs((i \div w) - (j \div w)) <= 1

(* the pixels the breadth-first search reaches from those of S *)
RECURSIVE Flood(_, _, _)
Flood(S, on, w) ==
    LET T == S \cup { j \in on : \E i \in S : Adjacent8(i, j, w) }
    IN  IF T = S THEN S ELSE Flood(T, on, w)

(* the components in the order of the scan, that of their first pixels;     *)
(* a component is kept as the set of its pixels                             *)
RECURSIVE ComponentsOf(_, _)
ComponentsOf(on, w) ==
    IF on = {} THEN <<>>
    ELSE LET component == Flood({SetMin(on)}, on, w)
         IN  <<component>> \o ComponentsOf(on \ component, w)

findConnectedComponents(mask, w, h) ==
    ComponentsOf({ i \in Cells(w, h) : mask[i] > 0 }, w)

GapFillContourOptions ==
    [method |-> "moore", minArea |-> 5, simplify |-> TRUE, tolerance |-> <<1, 1>>]

DefaultColor == [r |-> 0, g |-> 0, b |-> 0, a |-> 255]

(* gap-fill paths that take a white stroke *)
RECURSIVE ContourPaths_White(_, _, _)
ContourPaths_White(contours, k, newPaths) ==
    IF k > Len(contours) THEN newPaths
    ELSE IF Len(contours[k].points) < 3 THEN ContourPaths_White(contours, k + 1, newPaths)
    ELSE ContourPaths_White(contours, k + 1,
             Append(newPaths,
                    [points |-> douglasPeucker(contours[k].points, <<1, 1>>),
                     color |-> [r |-> 255, g |-> 255, b |-> 255, a |-> 255],
                     strokeWidth |-> 1,
                     closed |-> contours[k].isClosed,
                     id |-> <<"gap-fill", Len(newPaths)>>]))

(* the paths pushed for the contours k .. of one cluster *)
RECURSIVE ContourPaths(_, _, _)
ContourPaths(contours, k, newPaths) ==
    IF k > Len(contours) THEN newPaths
    ELSE IF Len(contours[k].points) < 3 THEN ContourPaths(contours, k + 1, newPaths)
    ELSE ContourPaths(contours, k + 1,
             Append(newPaths,
                    [points |-> douglasPeucker(contours[k].points, <<1, 1>>),
                     color |-> DefaultColor,
                     strokeWidth |-> 1,
                     closed |-> contours[k].isClosed,
                     id |-> <<"gap-fill", Len(newPaths)>>]))

(* the loop over the clusters k .. *)
RECURSIVE ClusterPaths(_, _, _, _, _, _)
ClusterPaths(clusters, k, w, h, gapFillMinCluster, newPaths) ==
    IF k > Len(clusters) THEN newPaths
    ELSE IF Cardinality(clusters[k]) < gapFillMinCluster
         THEN ClusterPaths(clusters, k + 1, w, h, gapFillMinCluster, newPaths)
    ELSE LET clusterMask == [i \in Cells(w, h) |-> IF i \in clusters[k] THEN 255 ELSE 0]
             contours == detectContours(clusterMask, w, h, GapFillContourOptions)
         IN  ClusterPaths(clusters, k + 1, w, h, gapFillMinCluster,
                          IF contours.thrown THEN newPaths
                          ELSE ContourPaths(contours.value, 1, newPaths))

(* unmatchedMask after the first loop of fillGaps *)
UnmatchedMask(ref, svgDistTransform, w, h, distanceTolerance) ==
    [i \in Cells(w, h) |->
        IF ref[i] > 0 /\ svgDistTransform[i] > distanceTolerance THEN 255 ELSE 0]

fillGaps(existingPaths, ref, svg, w, h, gapFillMinCluster, distanceTolerance) ==
    LET svgDistTransform == computeDistanceTransform(svg, w, h)
        unmatchedMask == UnmatchedMask(ref, svgDistTransform, w, h, distanceTolerance)
        unmatchedCount == Cardinality({ i \in Cells(w, h) : unmatchedMask[i] > 0 })
    IN  IF unmatchedCount < gapFillMinCluster THEN existingPaths
        ELSE existingPaths \o
             ClusterPaths(findConnectedComponents(unmatchedMask, w, h), 1, w, h,
                          gapFillMinCluster, <<>>)

----------------------------------------------------------------------------
(* refineConversion, svg-refiner.ts 557-636.  One action per statement of   *)
(* the function; pc is the statement to run next.  refinementTime, a clock  *)
(* reading, is left out of the result.                                      *)

(* the test of the break taken on the precision *)
MeetsTarget_OnPrecision(s, targetAccuracy) == RatLeq(targetAccuracy, s.precision)

(* currentScore.f1Score >= opts.targetAccuracy *)
MeetsTarget(s, targetAccuracy) == RatLeq(targetAccuracy, s.f1Score)

(* currentScore.precision < opts.targetAccuracy *)
NeedsRemoveSpurious(s, targetAccuracy) == RatLess(s.precision, targetAccuracy)

(* the guard of gap filling taken on the precision *)
NeedsFillGaps_OnPrecision(s, targetAccuracy) == RatLess(s.precision, targetAccuracy)

(* currentScore.recall < opts.targetAccuracy *)
NeedsFillGaps(s, targetAccuracy) == RatLess(s.recall, targetAccuracy)

Measure(ps) ==
    computeAccuracy(referenceEdges, rasterizePaths(ps, width, height), width, height,
                    opts.distanceTolerance)

Begin ==
    /\ pc = "rc:start"
    /\ beforeScore' = Measure(paths)
    /\ currentPaths' = paths
    /\ currentScore' = beforeScore'
    /\ iterationsUsed' = 0
    /\ iter' = 0
    /\ pc' = "rc:loop"
    /\ UNCHANGED <<width, height, opts, paths, result, measured, applied,
                   dtVars, accVars, dpVars, zsVars, postVars, libVars, drawVars>>

rcFrame == <<width, height, opts, paths, beforeScore, result, dtVars, accVars, dpVars, zsVars,
            postVars, libVars, drawVars>>

(* iter < opts.maxIterations fails *)
LoopEnd ==
    /\ pc = "rc:loop"
    /\ ~(iter < opts.maxIterations)
    /\ pc' = "rc:return"
    /\ UNCHANGED <<rcFrame, currentPaths, currentScore, iterationsUsed, iter, measured, applied>>

Break ==
    /\ pc = "rc:loop"
    /\ iter < opts.maxIterations
    /\ MeetsTarget(currentScore, opts.targetAccuracy)
    /\ pc' = "rc:return"
    /\ UNCHANGED <<rcFrame, currentPaths, currentScore, iterationsUsed, iter, measured, applied>>

(* the loop body entered without the test of the break *)
StartIteration_NoBreak ==
    /\ pc = "rc:loop"
    /\ iter < opts.maxIterations
    /\ iterationsUsed' = iter + 1
    /\ measured' = Append(measured, currentScore)
    /\ pc' = "rc:spurious"
    /\ UNCHANGED <<rcFrame, currentPaths, currentScore, iter, applied>>

StartIteration ==
    /\ pc = "rc:loop"
    /\ iter < opts.maxIterations
    /\ ~MeetsTarget(currentScore, opts.targetAccuracy)
    /\ iterationsUsed' = iter + 1
    /\ measured' = Append(measured, currentScore)
    /\ pc' = "rc:spurious"
    /\ UNCHANGED <<rcFrame, currentPaths, currentScore, iter, applied>>

RemoveSpurious ==
    /\ pc = "rc:spurious"
    /\ NeedsRemoveSpurious(currentScore, opts.targetAccuracy)
    /\ currentPaths' = removeSpuriousPaths(currentPaths, referenceEdges, width, height,
                                           opts.spuriousThreshold)
    /\ applied' = Append(applied, <<iterationsUsed, "remove-spurious">>)
    /\ pc' = "rc:snap"
    /\ UNCHANGED <<rcFrame, currentScore, iterationsUsed, iter, measured>>

SkipRemoveSpurious ==
    /\ pc = "rc:spurious"
    /\ ~NeedsRemoveSpurious(currentScore, opts.targetAccuracy)
    /\ pc' = "rc:snap"
    /\ UNCHANGED <<rcFrame, currentPaths, currentScore, iterationsUsed, iter, measured, applied>>

Snap ==
    /\ pc = "rc:snap"
    /\ currentPaths' = snapPathsToEdges(currentPaths, referenceEdges, width, height,
                                        opts.snapRadius)
    /\ applied' = Append(applied, <<iterationsUsed, "snap-to-edges">>)
    /\ pc' = "rc:resimplify"
    /\ UNCHANGED <<rcFrame, currentScore, iterationsUsed, iter, measured>>

Resimplify ==
    /\ pc = "rc:resimplify"
    /\ currentPaths' = adaptiveResimplify(currentPaths, referenceEdges, width, height,
                                          opts.distanceTolerance)
    /\ applied' = Append(applied, <<iterationsUsed, "adaptive-resimplify">>)
    /\ pc' = "rc:gaps"
    /\ UNCHANGED <<rcFrame, currentScore, iterationsUsed, iter, measured>>

FillGaps ==
    /\ pc = "rc:gaps"
    /\ NeedsFillGaps(currentScore, opts.targetAccuracy)
    /\ currentPaths' = fillGaps(currentPaths, referenceEdges,
                                rasterizePaths(currentPaths, width, height),
                                width, height, opts.gapFillMinCluster,
                                opts.distanceTolerance)
    /\ applied' = Append(applied, <<iterationsUsed, "gap-fill">>)
    /\ pc' = "rc:rescore"
    /\ UNCHANGED <<rcFrame, currentScore, iterationsUsed, iter, measured>>

SkipFillGaps ==
    /\ pc = "rc:gaps"
    /\ ~NeedsFillGaps(currentScore, opts.targetAccuracy)
    /\ pc' = "rc:rescore"
    /\ UNCHANGED <<rcFrame, currentPaths, currentScore, iterationsUsed, iter, measured, applied>>

(* the re-measurement that ends the loop body, and iter++ *)
Rescore ==
    /\ pc = "rc:rescore"
    /\ currentScore' = Measure(currentPaths)
    /\ iter' = iter + 1
    /\ pc' = "rc:loop"
    /\ UNCHANGED <<rcFrame, currentPaths, iterationsUsed, measured, applied>>

Return ==
    /\ pc = "rc:return"
    /\ result' = [paths |-> currentPaths, beforeScore |-> beforeScore,
                  afterScore |-> currentScore, iterationsUsed |-> iterationsUsed]
    /\ pc' = "rc:done"
    /\ UNCHANGED <<width, height, opts, paths, currentPaths, currentScore, beforeScore,
                   iterationsUsed, iter, measured, applied,
                   dtVars, accVars, dpVars, zsVars, postVars, libVars, drawVars>>

(* Specification of a refineConversion call on an image of RCWidth x        *)
(* RCHeight pixels.  The input is at most one path of at most RCMaxPts      *)
(* distinct anchor points (three corners and the middle of the top side,    *)
(* which lies between two pixels when the width is even), open or closed;   *)
(* the reference mask is empty, full, or the rendering of a segment or of   *)
(* the closed frame between anchors.                                        *)
RCAnchors(w, h) ==
    { Pt(0, 0), Pt(w - 1, 0), Pt(2 * (w - 1), 0), Pt(2 * (w - 1), 2 * (h - 1)) }

InputPath(pts, closed) ==
    [points |-> pts, color |-> [r |-> 255, g |-> 0, b |-> 0, a |-> 255],
     strokeWidth |-> 1, closed |-> closed, id |-> <<"path", 0>>]

Distinct(q) == \A i, j \in DOMAIN q : i # j => q[i] # q[j]

RCPathPool(w, h) ==
    { InputPath(q, c) : q \in { r \in SeqsUpTo(RCAnchors(w, h), RCMaxPts) :
                                     Len(r) >= 1 /\ Distinct(r) },
                        c \in BOOLEAN }

RCInputs(w, h) == { <<>> } \cup { <<p>> : p \in RCPathPool(w, h) }

FullMask(w, h) == [i \in Cells(w, h) |-> 255]

RCReferences(w, h) ==
    { EmptyMask(w, h), FullMask(w, h) }
    \cup { rasterizePaths(<<InputPath(<<a, b>>, FALSE)>>, w, h) :
               a \in RCAnchors(w, h), b \in RCAnchors(w, h) }
    \cup { rasterizePaths(<<InputPath(<<Pt(0, 0), Pt(2 * (w - 1), 0),
                                        Pt(2 * (w - 1), 2 * (h - 1)),
                                        Pt(0, 2 * (h - 1))>>, TRUE)>>, w, h) }

RCOptions ==
    [targetAccuracy : { <<1, 2>>, <<85, 100>> },
     maxIterations : 0 .. RCMaxIterations,
     snapRadius : { 3 },
     gapFillMinCluster : { 6, 20 },
     spuriousThreshold : { <<7, 10>> },
     distanceTolerance : { 1000, 2000 }]

(* No call yet. *)
InitRefine ==
    /\ pc = "rc:idle"
    /\ width = RCWidth
    /\ height = RCHeight
    /\ referenceEdges = Idle /\ svgEdges = Idle /\ score = Idle
    /\ opts = Idle
    /\ paths = Idle /\ currentPaths = Idle /\ currentScore = Idle /\ beforeScore = Idle
    /\ iterationsUsed = 0 /\ iter = 0
    /\ result = Idle
    /\ measured = <<>> /\ applied = <<>>
    /\ DTIdle /\ DPIdle /\ ZSIdle /\ PostIdle /\ LibIdle /\ DrawIdle

(* The caller passes its paths, the reference mask and the options. *)
Call ==
    /\ pc = "rc:idle"
    /\ referenceEdges' \in RCReferences(width, height)
    /\ paths' \in RCInputs(width, height)
    /\ opts' \in RCOptions
    /\ pc' = "rc:start"
    /\ UNCHANGED <<width, height, svgEdges, score, currentPaths, currentScore, beforeScore,
                   iterationsUsed, iter, result, measured, applied,
                   dtVars, dpVars, zsVars, postVars, libVars, drawVars>>

NextRefine ==
    \/ Call \/ Begin \/ LoopEnd \/ Break \/ StartIteration
    \/ RemoveSpurious \/ SkipRemoveSpurious \/ Snap \/ Resimplify
    \/ FillGaps \/ SkipFillGaps \/ Rescore \/ Return

SpecRefine == InitRefine /\ [][NextRefine]_vars

(* The positions of refineConversion, and a step to another position.      *)
(* Every action of NextRefine moves pc to another position, and every       *)
(* position but rc:done has an action whose guard holds, so weak fairness  *)
(* of Advance is weak fairness of NextRefine: the call, once made, runs     *)
(* statement after statement.                                               *)
Positions ==
    {"rc:idle", "rc:start", "rc:loop", "rc:spurious", "rc:snap", "rc:resimplify",
     "rc:gaps", "rc:rescore", "rc:return", "rc:done"}

Advance == pc # "rc:done" /\ pc' \in Positions /\ pc' # pc

SpecRefineFair == SpecRefine /\ WF_pc(Advance)

(* C1: the F1 of afterScore returned by refineConversion is never below     *)
(* the F1 of beforeScore (the result has no field that reports a            *)
(* regression: it holds paths, beforeScore, afterScore, iterationsUsed and  *)
(* refinementTime only).                                                    *)
C1_NeverLowersBeforeScore ==
    pc = "rc:done" => RatLeq(result.beforeScore.f1Score, result.afterScore.f1Score)

(* the names of the strategies run in iteration n, in the order of the calls *)
StrategiesOf(n) ==
    LET calls == SelectSeq(applied, LAMBDA e : e[1] = n)
    IN  [k \in 1 .. Len(calls) |-> calls[k][2]]

(* C2: refineConversion terminates, having run at most maxIterations        *)
(* iterations; iterationsUsed is the number of iterations run in full, and  *)
(* if it is below maxIterations the returned afterScore has an F1 of at     *)
(* least targetAccuracy.                                                    *)
C2_TerminatesWithinCap ==
    /\ <>(pc = "rc:done")
    /\ [](pc \in Positions)
    /\ [](pc # "rc:idle" => Len(measured) <= opts.maxIterations)
    /\ [](pc = "rc:done" =>
            /\ result.iterationsUsed >= 0
            /\ result.iterationsUsed <= opts.maxIterations
            /\ result.iterationsUsed = iter
            /\ result.iterationsUsed = Len(measured)
            /\ \A n \in 1 .. result.iterationsUsed : Len(StrategiesOf(n)) >= 2
            /\ result.iterationsUsed < opts.maxIterations =>
                   RatLeq(opts.targetAccuracy, result.afterScore.f1Score))

(* The loop ran once and stopped before the cap on a score below 1. *)
C2_Witness ==
    /\ pc = "rc:done"
    /\ result.iterationsUsed = 1
    /\ opts.maxIterations = 2
    /\ RatLess(result.beforeScore.f1Score, opts.targetAccuracy)
    /\ RatLess(result.afterScore.f1Score, <<1, 1>>)

(* C3: when the F1 of beforeScore is at least targetAccuracy, or            *)
(* maxIterations is 0, no strategy is applied: iterationsUsed is 0,         *)
(* afterScore is beforeScore, and the returned paths are the input paths;   *)
(* and no step after the call changes the caller's array.                   *)
C3_NothingAppliedAtTarget ==
    /\ [](pc = "rc:done"
            /\ (\/ RatLeq(opts.targetAccuracy, result.beforeScore.f1Score)
                \/ opts.maxIterations = 0)
          => /\ result.iterationsUsed = 0
             /\ result.afterScore = result.beforeScore
             /\ result.paths = paths
             /\ applied = <<>>)
    /\ [][pc # "rc:idle" => paths' = paths]_vars

(* A path that scores at least the target without being a perfect match,    *)
(* with iterations allowed.                                                 *)
C3_Witness ==
    /\ pc = "rc:done"
    /\ opts.maxIterations > 0
    /\ paths # <<>>
    /\ RatLeq(opts.targetAccuracy, result.beforeScore.f1Score)
    /\ RatLess(result.beforeScore.f1Score, <<1, 1>>)

(* the strategies the claim expects in an iteration that starts from s *)
ExpectedStrategies(s) ==
    (IF RatLess(s.precision, opts.targetAccuracy) THEN <<"remove-spurious">> ELSE <<>>)
    \o <<"snap-to-edges", "adaptive-resimplify">>
    \o (IF RatLess(s.recall, opts.targetAccuracy) THEN <<"gap-fill">> ELSE <<>>)

IsPrefix(a, b) == Len(a) <= Len(b) /\ \A k \in 1 .. Len(a) : a[k] = b[k]

(* C4: the strategies of every iteration run in the order remove-spurious,  *)
(* snap-to-edges, adaptive-resimplify, gap-fill; remove-spurious runs       *)
(* exactly when the precision the iteration started from is below the       *)
(* target, gap-fill exactly when the recall it started from is below the    *)
(* target, and the other two in every iteration.                            *)
C4_StrategyOrder ==
    /\ pc \in {"rc:loop", "rc:return", "rc:done"} =>
           \A n \in 1 .. Len(measured) : StrategiesOf(n) = ExpectedStrategies(measured[n])
    /\ pc \in {"rc:spurious", "rc:snap", "rc:resimplify", "rc:gaps", "rc:rescore"} =>
           /\ \A n \in 1 .. Len(measured) - 1 :
                  StrategiesOf(n) = ExpectedStrategies(measured[n])
           /\ IsPrefix(StrategiesOf(Len(measured)),
                       ExpectedStrategies(measured[Len(measured)]))
    /\ \A k \in 1 .. Len(applied) - 1 : applied[k][1] <= applied[k + 1][1]

(* Two iterations: one ran all four strategies, the other ran gap-fill      *)
(* without remove-spurious or remove-spurious without gap-fill.             *)
C4_Witness ==
    /\ pc = "rc:done"
    /\ \E n \in 1 .. Len(measured) : Len(StrategiesOf(n)) = 4
    /\ \E n \in 1 .. Len(measured) : Len(StrategiesOf(n)) = 3

----------------------------------------------------------------------------
(* The request handler POST and its pipeline, route handler 54-57, 213-298, *)
(* 416-521, 802-948.  The pixel buffer is a function on 0 .. length-1; a    *)
(* read outside it gives undefined, which arithmetic turns into NaN and a   *)
(* comparison into false; a write outside a typed array is dropped.  The    *)
(* vector document is kept as the data its text is printed from (size and   *)
(* point lists); stroke colours are not part of it.                         *)

Undefined == -1

ByteAt(data, i) == IF i \in DOMAIN data THEN data[i] ELSE Undefined

(* the grey level of the negative image *)
toGrayscale_Negative(r, g, b) ==
    IF r = Undefined \/ g = Undefined \/ b = Undefined THEN Undefined
    ELSE 255 - (299 * r + 587 * g + 114 * b + 500) \div 1000

(* Math.round(0.299 r + 0.587 g + 0.114 b), Undefined standing for NaN *)
toGrayscale(r, g, b) ==
    IF r = Undefined \/ g = Undefined \/ b = Undefined THEN Undefined
    ELSE (299 * r + 587 * g + 114 * b + 500) \div 1000

BufferLength(data) == Cardinality(DOMAIN data)

(* new Uint8ClampedArray(n), new Float32Array(n) *)
AllocationFails(n) == n < 0

(* binarize with the comparison turned round: light pixels become lines *)
binarize_LightIsLine(data, w, h, threshold) ==
    [i \in Cells(w, h) |->
        LET gray == toGrayscale(ByteAt(data, 4 * i), ByteAt(data, 4 * i + 1),
                                ByteAt(data, 4 * i + 2))
        IN  IF 4 * i < BufferLength(data) /\ gray # Undefined /\ gray >= threshold
            THEN 1 ELSE 0]

(* the loop runs over the pixels the buffer holds, whole or cut, and the    *)
(* array has width * height cells                                           *)
binarize(data, w, h, threshold) ==
    [i \in Cells(w, h) |->
        LET gray == toGrayscale(ByteAt(data, 4 * i), ByteAt(data, 4 * i + 1),
                                ByteAt(data, 4 * i + 2))
        IN  IF 4 * i < BufferLength(data) /\ gray # Undefined /\ gray < threshold
            THEN 1 ELSE 0]

STRONG == 255
WEAK == 50

Interior(idx, w, h) ==
    /\ idx % w >= 1 /\ idx % w < w - 1
    /\ idx \div w >= 1 /\ idx \div w < h - 1

(* one scan of the hysteresis loop over the pixels idx .., in place *)
RECURSIVE HysteresisScan(_, _, _, _)
HysteresisScan(res, idx, w, h) ==
    IF idx >= w * h THEN res
    ELSE IF /\ Interior(idx, w, h)
            /\ res[idx] = WEAK
            /\ \E ky \in -1 .. 1, kx \in -1 .. 1 :
                   res[((idx \div w) + ky) * w + ((idx % w) + kx)] = STRONG
         THEN HysteresisScan([res EXCEPT ![idx] = STRONG], idx + 1, w, h)
         ELSE HysteresisScan(res, idx + 1, w, h)

RECURSIVE Hysteresis(_, _, _)
Hysteresis(res, w, h) ==
    LET scanned == HysteresisScan(res, 0, w, h)
    IN  IF scanned = res THEN res ELSE Hysteresis(scanned, w, h)

doubleThreshold(suppressed, w, h, lowThreshold, highThreshold) ==
    LET marked == [i \in DOMAIN suppressed |->
                      IF suppressed[i] >= highThreshold THEN STRONG
                      ELSE IF suppressed[i] >= lowThreshold THEN WEAK
                      ELSE 0]
        joined == IF w >= 3 /\ h >= 3 THEN Hysteresis(marked, w, h) ELSE marked
    IN  [i \in DOMAIN joined |-> IF joined[i] = WEAK THEN 0 ELSE joined[i]]

(* The magnitudes after gaussianBlur, sobelEdgeDetection and                *)
(* nonMaximumSuppression on an image with no interior pixel: the loops of   *)
(* the last two run over 1 .. width-2 and 1 .. height-2 and leave every     *)
(* cell of the fresh array at 0.  Images with interior pixels are not part  *)
(* of this model.                                                           *)
suppressedMagnitude(data, w, h) ==
    CASE w < 3 \/ h < 3 -> [i \in Cells(w, h) |-> 0]

cannyEdgeDetection(data, w, h, lowThreshold, highThreshold) ==
    IF AllocationFails(w * h * 4) THEN Thrown("Invalid typed array length")
    ELSE Returned(doubleThreshold(suppressedMagnitude(data, w, h), w, h,
                                  lowThreshold, highThreshold))

(* Edge-chain tracing: traceEdgeChain, countEdgeNeighbors and the          *)
(* detectContours of the route handler (named detectEdgeChains here, the    *)
(* name detectContours being that of image-processor.ts).                   *)
ChainDirections ==
    << <<1, 0>>, <<1, 1>>, <<0, 1>>, <<-1, 1>>, <<-1, 0>>, <<-1, -1>>, <<0, -1>>, <<1, -1>> >>

countEdgeNeighbors(bin, w, h, x, y) ==
    Cardinality({ i \in 1 .. 8 :
        LET nx == x + ChainDirections[i][1]
            ny == y + ChainDirections[i][2]
        IN  InGrid(nx, ny, w, h) /\ bin[ny * w + nx] > 0 })

(* the first direction i .. 8 with an unvisited edge pixel, 0 if none *)
RECURSIVE ChainNextDir(_, _, _, _, _, _, _)
ChainNextDir(bin, w, h, x, y, visited, i) ==
    IF i > 8 THEN 0
    ELSE LET nx == x + ChainDirections[i][1]
             ny == y + ChainDirections[i][2]
         IN  IF InGrid(nx, ny, w, h) /\ bin[ny * w + nx] > 0 /\ (ny * w + nx) \notin visited
             THEN i
             ELSE ChainNextDir(bin, w, h, x, y, visited, i + 1)

(* the while loop of traceEdgeChain; gives the points and the visited set *)
RECURSIVE traceEdgeChain(_, _, _, _, _, _, _)
traceEdgeChain(bin, w, h, x, y, visited, pts) ==
    LET pushed == Append(pts, Pt(2 * x, 2 * y))
        marked == visited \cup {y * w + x}
        found == ChainNextDir(bin, w, h, x, y, marked, 1)
    IN  IF Len(pushed) > w * h \/ found = 0
        THEN [points |-> pushed, visited |-> marked]
        ELSE traceEdgeChain(bin, w, h, x + ChainDirections[found][1],
                            y + ChainDirections[found][2], marked, pushed)

(* one pass of the scan from the pixel idx on: from the chain ends only     *)
(* (first pass) or from every pixel left (second pass)                      *)
RECURSIVE chainPass(_, _, _, _, _, _, _)
chainPass(bin, w, h, idx, visited, contours, endsOnly) ==
    IF w <= 0 \/ h <= 0 THEN [contours |-> contours, visited |-> visited]
    ELSE LET starts == { i \in idx .. w * h - 1 :
                           /\ bin[i] # 0
                           /\ i \notin visited
                           /\ endsOnly => countEdgeNeighbors(bin, w, h, i % w, i \div w) = 1 }
         IN  IF starts = {} THEN [contours |-> contours, visited |-> visited]
             ELSE LET first == SetMin(starts)
                      chain == traceEdgeChain(bin, w, h, first % w, first \div w,
                                              visited, <<>>)
                  IN  chainPass(bin, w, h, first + 1, chain.visited,
                                IF Len(chain.points) >= 3
                                THEN Append(contours, chain.points)
                                ELSE contours,
                                endsOnly)

detectEdgeChains(bin, w, h) ==
    LET first == chainPass(bin, w, h, 0, {}, <<>>, TRUE)
    IN  chainPass(bin, w, h, 0, first.visited, first.contours, FALSE).contours

(* opts of POST: the defaults under the options of the request *)
PostDefaults ==
    [edgeMethod |-> "skeleton", lowThreshold |-> 50, highThreshold |-> 150,
     contourMethod |-> "suzuki", minArea |-> 10, tolerance |-> <<1, 1>>]

(* opts.edgeDetection.method || 'skeleton' *)
EdgeMethodOf(options) == IF options.edgeMethod = "" THEN "skeleton" ELSE options.edgeMethod

(* the edge mask of the request, or the exception of the branch taken *)
PostEdges(req) ==
    LET method == EdgeMethodOf(req.options)
    IN  IF method = "skeleton"
        THEN IF AllocationFails(req.width * req.height)
             THEN Thrown("Invalid typed array length")
             ELSE Returned(zhangSuenThinning(binarize(req.imageData, req.width, req.height, 128),
                                             req.width, req.height))
        ELSE cannyEdgeDetection(req.imageData, req.width, req.height,
                                req.options.lowThreshold, req.options.highThreshold)

RECURSIVE LongEnough(_, _, _)
LongEnough(contours, k, least) ==
    IF k > Len(contours) THEN <<>>
    ELSE (IF Len(contours[k]) >= least THEN <<contours[k]>> ELSE <<>>)
         \o LongEnough(contours, k + 1, least)

(* the contours after the length filter and the simplification *)
PostContours(edgeMask, req) ==
    LET kept == LongEnough(detectEdgeChains(edgeMask, req.width, req.height), 1,
                           Max2(req.options.minArea, 4))
    IN  [k \in 1 .. Len(kept) |-> douglasPeucker(kept[k], req.options.tolerance)]

(* Colours of the route handler: detectBackgroundColor 641-698,             *)
(* extractLineColors 700-744, sampleColorAlongPath 746-777,                 *)
(* findNearestColor 779-796, colorToHex 613-615.  A colour is [r, g, b, a]; *)
(* a channel read beyond the buffer is Undefined, and so is every number    *)
(* computed from it (NaN).                                                  *)
PixelAt(data, p) ==
    [r |-> ByteAt(data, 4 * p), g |-> ByteAt(data, 4 * p + 1),
     b |-> ByteAt(data, 4 * p + 2), a |-> ByteAt(data, 4 * p + 3)]

Black == [r |-> 0, g |-> 0, b |-> 0, a |-> 255]
White == [r |-> 255, g |-> 255, b |-> 255, a |-> 255]

(* Math.round(n / d) for n >= 0 *)
RoundDiv(n, d) == IF n = Undefined THEN Undefined ELSE (2 * n + d) \div (2 * d)

(* color.a < 128 *)
Transparent(c) == c.a # Undefined /\ c.a < 128

(* the colours pushed by the loop over x, then by the loop over y *)
EdgeColors(data, w, h) ==
    [k \in 1 .. 2 * Max2(w, 0) |->
        IF k % 2 = 1 THEN PixelAt(data, (k - 1) \div 2)
        ELSE PixelAt(data, (h - 1) * w + (k - 1) \div 2)]
    \o [k \in 1 .. 2 * Max2(h, 0) |->
        IF k % 2 = 1 THEN PixelAt(data, ((k - 1) \div 2) * w)
        ELSE PixelAt(data, ((k - 1) \div 2) * w + w - 1)]

BackgroundKey(c) == <<RoundDiv(c.r, 16), RoundDiv(c.g, 16), RoundDiv(c.b, 16)>>

(* colorMap after the edge colours k .., in insertion order *)
RECURSIVE CountEdgeColors(_, _, _)
CountEdgeColors(edgeColors, k, colorMap) ==
    IF k > Len(edgeColors) THEN colorMap
    ELSE LET c == edgeColors[k]
             key == BackgroundKey(c)
             found == { m \in DOMAIN colorMap : colorMap[m].key = key }
         IN  IF Transparent(c) THEN CountEdgeColors(edgeColors, k + 1, colorMap)
             ELSE IF found = {}
             THEN CountEdgeColors(edgeColors, k + 1,
                      Append(colorMap, [key |-> key, color |-> c, count |-> 1]))
             ELSE CountEdgeColors(edgeColors, k + 1,
                      [colorMap EXCEPT ![CHOOSE f \in found : TRUE].count = @ + 1])

(* the colour of the first entry with the largest count, white if none *)
detectBackgroundColor(data, w, h) ==
    LET colorMap == CountEdgeColors(EdgeColors(data, w, h), 1, <<>>)
    IN  IF colorMap = <<>> THEN White
        ELSE colorMap[CHOOSE k \in DOMAIN colorMap :
                 /\ \A j \in DOMAIN colorMap : colorMap[j].count <= colorMap[k].count
                 /\ \A j \in DOMAIN colorMap :
                        j < k => colorMap[j].count < colorMap[k].count].color

(* Math.pow(..) sums under the root: Undefined when a term is NaN *)
DistanceSq(c, d) ==
    IF Undefined \in {c.r, c.g, c.b, d.r, d.g, d.b} THEN Undefined
    ELSE (c.r - d.r) * (c.r - d.r) + (c.g - d.g) * (c.g - d.g) + (c.b - d.b) * (c.b - d.b)

(* Math.round(v / 8) * 8 *)
QuantizeChannel(v) == IF v = Undefined THEN Undefined ELSE RoundDiv(v, 8) * 8

(* the pixels extractLineColors does not skip *)
IsLinePixel(c, backgroundColor) ==
    /\ ~Transparent(c)
    /\ ~(DistanceSq(c, backgroundColor) # Undefined /\ DistanceSq(c, backgroundColor) < 900)
    /\ ~(c.r > 240 /\ c.g > 240 /\ c.b > 240)

IndexOfColor(colorMap, c) ==
    IF \E k \in DOMAIN colorMap : colorMap[k].r = c.r /\ colorMap[k].g = c.g /\ colorMap[k].b = c.b
    THEN CHOOSE k \in DOMAIN colorMap :
             colorMap[k].r = c.r /\ colorMap[k].g = c.g /\ colorMap[k].b = c.b
    ELSE 0

(* the loop over the pixels p .. n-1 of the buffer, colorMap in insertion order *)
RECURSIVE CollectLineColors(_, _, _, _, _)
CollectLineColors(data, backgroundColor, p, n, colorMap) ==
    IF p >= n THEN colorMap
    ELSE LET c == PixelAt(data, p)
             q == [r |-> QuantizeChannel(c.r), g |-> QuantizeChannel(c.g),
                   b |-> QuantizeChannel(c.b), count |-> 1]
             k == IndexOfColor(colorMap, q)
         IN  IF ~IsLinePixel(c, backgroundColor)
             THEN CollectLineColors(data, backgroundColor, p + 1, n, colorMap)
             ELSE CollectLineColors(data, backgroundColor, p + 1, n,
                      IF k = 0 THEN Append(colorMap, q)
                      ELSE [colorMap EXCEPT ![k].count = @ + 1])

RECURSIVE FilterFrequent(_, _, _)
FilterFrequent(colorMap, k, totalPixels) ==
    IF k > Len(colorMap) THEN <<>>
    ELSE (IF 1000 * colorMap[k].count > totalPixels THEN <<colorMap[k]>> ELSE <<>>)
         \o FilterFrequent(colorMap, k + 1, totalPixels)

(* sort((a, b) => b.count - a.count): stable, the larger count first *)
RECURSIVE SortByCount(_)
SortByCount(colors) ==
    IF colors = <<>> THEN <<>>
    ELSE LET k == CHOOSE i \in DOMAIN colors :
                      /\ \A j \in DOMAIN colors : colors[j].count <= colors[i].count
                      /\ \A j \in DOMAIN colors : j < i => colors[j].count < colors[i].count
         IN  <<colors[k]>> \o SortByCount(SubSeq(colors, 1, k - 1)
                                          \o SubSeq(colors, k + 1, Len(colors)))

extractLineColors(data, w, h, backgroundColor) ==
    LET colorMap == CollectLineColors(data, backgroundColor, 0,
                                      (BufferLength(data) + 3) \div 4, <<>>)
        sorted == SortByCount(FilterFrequent(colorMap, 1, w * h))
        colors == [k \in 1 .. Min2(10, Len(sorted)) |->
                      [r |-> sorted[k].r, g |-> sorted[k].g, b |-> sorted[k].b, a |-> 255]]
    IN  IF Len(colors) > 0 THEN colors ELSE <<Black>>

(* r += data[idx]: NaN once a term is undefined *)
AddChannel(sum, v) == IF sum = Undefined \/ v = Undefined THEN Undefined ELSE sum + v

(* the sums and the count over the points i, i + step, .. of the path *)
RECURSIVE SampleSum(_, _, _, _, _, _, _)
SampleSum(data, w, h, pts, i, step, acc) ==
    IF i > Len(pts) THEN acc
    ELSE LET x == pts[i].x \div 2          \* Math.floor of the half-pixel coordinate
             y == pts[i].y \div 2
             c == PixelAt(data, y * w + x)
         IN  SampleSum(data, w, h, pts, i + step, step,
                 IF InGrid(x, y, w, h)
                 THEN [r |-> AddChannel(acc.r, c.r), g |-> AddChannel(acc.g, c.g),
                       b |-> AddChannel(acc.b, c.b), count |-> acc.count + 1]
                 ELSE acc)

sampleColorAlongPath(data, w, h, pts) ==
    LET step == Max2(1, Len(pts) \div 10)
        sum == SampleSum(data, w, h, pts, 1, step, [r |-> 0, g |-> 0, b |-> 0, count |-> 0])
    IN  IF sum.count = 0 THEN Black
        ELSE [r |-> RoundDiv(sum.r, sum.count), g |-> RoundDiv(sum.g, sum.count),
              b |-> RoundDiv(sum.b, sum.count), a |-> 255]

(* the loop over the palette entries k ..; best is the index of nearest,    *)
(* minDistSq the square of minDist, Undefined for Infinity                   *)
RECURSIVE NearestIndex(_, _, _, _, _)
NearestIndex(color, palette, k, best, minDistSq) ==
    IF k > Len(palette) THEN best
    ELSE LET d == DistanceSq(color, palette[k])
         IN  IF d # Undefined /\ (minDistSq = Undefined \/ d < minDistSq)
             THEN NearestIndex(color, palette, k + 1, k, d)
             ELSE NearestIndex(color, palette, k + 1, best, minDistSq)

findNearestColor(color, palette) == palette[NearestIndex(color, palette, 1, 1, Undefined)]

(* n.toString(16).padStart(2, '0') as its digits, most significant first;   *)
(* the three characters of 'NaN' are <<Undefined, Undefined, Undefined>>    *)
RECURSIVE HexDigits(_)
HexDigits(n) == IF n < 16 THEN <<n>> ELSE HexDigits(n \div 16) \o <<n % 16>>

HexByte(n) ==
    IF n = Undefined THEN <<Undefined, Undefined, Undefined>>
    ELSE IF n < 16 THEN <<0, n>>
    ELSE HexDigits(n)

(* the characters after the '#' *)
colorToHex(r, g, b) == HexByte(r) \o HexByte(g) \o HexByte(b)

(* pointsToPathString: the points after M and each L, and whether Z ends it *)
pointsToPathString(pts, closed) == [points |-> pts, closed |-> closed]

(* colorGroups after the contours k .. got their colours, in insertion order *)
RECURSIVE GroupColors(_, _, _)
GroupColors(colors, k, groups) ==
    IF k > Len(colors) THEN groups
    ELSE LET found == { g \in DOMAIN groups : groups[g].color.r = colors[k].r
                                              /\ groups[g].color.g = colors[k].g
                                              /\ groups[g].color.b = colors[k].b }
         IN  GroupColors(colors, k + 1,
                 IF found = {} THEN Append(groups, [color |-> colors[k], count |-> 1])
                 ELSE LET g == CHOOSE f \in found : TRUE
                      IN  [groups EXCEPT ![g].count = @ + 1])

(* the body of the response for the simplified contours and their colours *)
Document(req, contours, colors, groups) ==
    [svg |-> [width |-> req.width, height |-> req.height,
              paths |-> [k \in 1 .. Len(contours) |->
                            [d |-> pointsToPathString(contours[k], FALSE),
                             stroke |-> colorToHex(colors[k].r, colors[k].g, colors[k].b),
                             color |-> colors[k]]]],
     width |-> req.width, height |-> req.height,
     pathCount |-> Len(contours),
     layerCount |-> Len(groups),
     colorGroups |-> [g \in 1 .. Len(groups) |->
                         [color |-> groups[g].color, count |-> groups[g].count,
                          percentage |-> <<100 * groups[g].count, Len(contours)>>]]]

ColoredDocument(req, contours, colors) ==
    Document(req, contours, colors, GroupColors(colors, 1, <<>>))

(* coloredContours: the palette entry nearest to the colour sampled on each *)
AssignColors(req, contours, palette) ==
    [k \in 1 .. Len(contours) |->
        findNearestColor(sampleColorAlongPath(req.imageData, req.width, req.height,
                                              contours[k]),
                         palette)]

TracedDocument(req, contours, palette) ==
    ColoredDocument(req, contours, AssignColors(req, contours, palette))

(* the response after the edge stage returned, or threw *)
RespondEdges(req, edgeMask, palette) ==
    IF edgeMask.thrown
    THEN [status |-> 500, body |-> [error |-> edgeMask.message]]
    ELSE [status |-> 200,
          body |-> TracedDocument(req, PostContours(edgeMask.value, req), palette)]

(* the response of the handler: the document with status 200, or the        *)
(* message of the caught exception with status 500; the palette is the      *)
(* handler's lineColors                                                     *)
RespondWith(req, palette) == RespondEdges(req, PostEdges(req), palette)

LineColorsOf(req) ==
    extractLineColors(req.imageData, req.width, req.height,
                      detectBackgroundColor(req.imageData, req.width, req.height))

Respond(req) == RespondWith(req, LineColorsOf(req))

(* The requests: an RGBA buffer of opaque black (0) and white (255) pixels  *)
(* whose length is 4*width*height, one byte or one pixel short of it, or    *)
(* one pixel over it; widths from -1 to PostMaxW, heights from -1 to 2;     *)
(* options that name an edge or a contour method and may lower minArea.     *)
PostMaxW == 3

PostWidths == -1 .. PostMaxW
PostHeights == -1 .. 2
PostEdgeSelectors == {"skeleton", "canny", "sobel", "bogus", ""}
PostContourSelectors == {"suzuki", "moore", "bogus"}

(* the method values the option types enumerate, with the handler's own *)
EdgeMethods == {"skeleton", "canny", "sobel", "prewitt", "roberts", "laplacian"}

BufferOf(pixels, len) ==
    [i \in 0 .. len - 1 |-> IF i % 4 = 3 THEN 255 ELSE pixels[(i \div 4) + 1]]

BufferLengths(w, h) ==
    LET exact == 4 * Max2(w * h, 0)
    IN  {exact, exact - 1, exact - 4, exact + 4} \cap Nat

Buffers(w, h) ==
    UNION { { BufferOf(pixels, len) : pixels \in [1 .. (len + 3) \div 4 -> {0, 255}] } :
            len \in BufferLengths(w, h) }

(* options = {}: the body names none *)
NoOptions == [x \in {} |-> 0]

PostOptions ==
    { [edgeMethod |-> m] : m \in PostEdgeSelectors }
    \cup { [edgeMethod |-> m, minArea |-> 0] : m \in PostEdgeSelectors }
    \cup { [contourMethod |-> c] : c \in PostContourSelectors }
    \cup { [contourMethod |-> c, minArea |-> 0] : c \in PostContourSelectors }

(* Drawings of one ink on one paper, of the exact buffer length: at most    *)
(* DrawMaxInk ink pixels on a DrawMaxW x 3 image, skeleton mode, minArea 0. *)
DrawMaxW == 4
DrawMaxInk == 4

Red == [r |-> 255, g |-> 0, b |-> 0, a |-> 255]
Blue == [r |-> 0, g |-> 0, b |-> 255, a |-> 255]

Channel(c, k) == IF k = 0 THEN c.r ELSE IF k = 1 THEN c.g ELSE IF k = 2 THEN c.b ELSE c.a

(* the RGBA buffer of a w x h image with the pixels of ink in the colour fg *)
ImageBuffer(w, h, ink, fg, bg) ==
    [i \in 0 .. 4 * w * h - 1 |-> Channel(IF (i \div 4) \in ink THEN fg ELSE bg, i % 4)]

DrawingColors == { <<White, Black>>, <<White, Red>>, <<White, Blue>>, <<Black, White>>,
                   <<Black, Red>>, <<Blue, Black>> }

Drawings ==
    { [imageData |-> ImageBuffer(w, 3, ink, c[2], c[1]), width |-> w, height |-> 3,
       options |-> [minArea |-> 0]] :
      w \in {DrawMaxW},
      ink \in { s \in SUBSET Cells(DrawMaxW, 3) : Cardinality(s) <= DrawMaxInk },
      c \in DrawingColors }

(* White images with one full-width black row, or none, 10 to RowMaxW       *)
(* pixels wide and 1 to 3 high, sent without options.                       *)
RowMaxW == 11

RowOf(w, y) == { y * w + x : x \in 0 .. w - 1 }

RowImages ==
    UNION { { [imageData |-> ImageBuffer(w, h, ink, Black, White), width |-> w, height |-> h,
               options |-> NoOptions] :
              ink \in { RowOf(w, y) : y \in 0 .. h - 1 } \cup {{}} } :
            <<w, h>> \in (10 .. RowMaxW) \X (1 .. 3) }

ShortRequests ==
    UNION { { [imageData |-> data, width |-> w, height |-> h, options |-> o] :
              data \in Buffers(w, h), o \in PostOptions } :
            <<w, h>> \in PostWidths \X PostHeights }

Requests == ShortRequests \cup Drawings \cup RowImages

(* opts: the defaults overridden by what the request names *)
MergeOptions(options) ==
    [k \in DOMAIN PostDefaults |-> IF k \in DOMAIN options THEN options[k] ELSE PostDefaults[k]]

InitPost ==
    /\ pc = "post:request"
    /\ request \in Requests
    /\ width = request.width
    /\ height = request.height
    /\ response = Idle
    /\ lineColors = Idle
    /\ opts = Idle
    /\ DTIdle /\ AccIdle /\ DPIdle /\ ZSIdle /\ RCIdle /\ LibIdle /\ DrawIdle

POST ==
    /\ pc = "post:request"
    /\ opts' = MergeOptions(request.options)
    /\ lineColors' = LineColorsOf(request)
    /\ response' = RespondWith([request EXCEPT !.options = opts'], lineColors')
    /\ pc' = "post:done"
    /\ UNCHANGED <<width, height, request, dtVars, accVars, dpVars, zsVars, rcVars, libVars, drawVars>>

NextPost == POST

SpecPost == InitPost /\ [][NextPost]_vars

(* what the handler was asked for *)
InvalidRequest(req) ==
    \/ BufferLength(req.imageData) # 4 * req.width * req.height
    \/ req.width <= 0
    \/ req.height <= 0

UnknownSelector(options) ==
    \/ options.edgeMethod \notin EdgeMethods
    \/ options.contourMethod \notin ContourMethods

(* what the response says *)
Failed(r) == r.status # 200 /\ "svg" \notin DOMAIN r.body

(* C6: a request whose pixel buffer length is not 4*width*height, or whose  *)
(* width or height is <= 0, ends in an InvalidImage error and produces no   *)
(* vector document.                                                         *)
C6_InvalidImageRejected ==
    (pc = "post:done" /\ InvalidRequest(request))
        => (Failed(response) /\ response.body.error = "INVALID_IMAGE")

(* C7: an edge-detection or contour-detection method selector outside the   *)
(* enumerated sets makes the conversion fail with an UnknownMethod error;   *)
(* no other method runs in its place.                                       *)
C7_UnknownMethodFails ==
    (pc = "post:done" /\ UnknownSelector(opts))
        => (/\ Failed(response)
            /\ response.body.error \in {"Unknown edge detection method",
                                        "Unknown contour detection method"})

----------------------------------------------------------------------------
(* Edge detection of the library: detectEdges, image-processor.ts 667-733,  *)
(* with medianFilter 269-308, grayscale 167-181, the gradient operators     *)
(* 399-530, doubleThreshold 585-640 (the code of the route handler's        *)
(* doubleThreshold, modelled above) and morphClose 758-831, composed as     *)
(* convert composes them, part_000 145-160.  An image is a grid of opaque   *)
(* grey pixels (r = g = b); a gradient magnitude is kept squared.           *)

Clamp(v, lo, hi) == Min2(Max2(v, lo), hi)

(* the 9 values medianFilter collects around (x, y), in its scan order *)
MedianWindow(data, w, h, x, y) ==
    [k \in 0 .. 8 |-> data[Clamp(y + (k \div 3) - 1, 0, h - 1) * w
                           + Clamp(x + (k % 3) - 1, 0, w - 1)]]

(* values[mid] of the sorted values, mid = floor(9 / 2) *)
MedianOf(window) ==
    CHOOSE v \in { window[k] : k \in DOMAIN window } :
        /\ Cardinality({ k \in DOMAIN window : window[k] < v }) <= 4
        /\ Cardinality({ k \in DOMAIN window : window[k] <= v }) >= 5

medianFilter(data, w, h) ==
    [i \in Cells(w, h) |-> MedianOf(MedianWindow(data, w, h, i % w, i \div w))]

grayscale(data) == [i \in DOMAIN data |-> toGrayscale(data[i], data[i], data[i])]

(* sum of kernel[k] * grayData over the 3 x 3 window of the pixel idx *)
Convolve(grayData, w, idx, kernel) ==
    LET term(k) == grayData[idx + ((k \div 3) - 1) * w + (k % 3) - 1] * kernel[k + 1]
    IN  term(0) + term(1) + term(2) + term(3) + term(4) + term(5) + term(6) + term(7) + term(8)

sobelX == <<-1, 0, 1, -2, 0, 2, -1, 0, 1>>
sobelY == <<-1, -2, -1, 0, 0, 0, 1, 2, 1>>
prewittX == <<-1, 0, 1, -1, 0, 1, -1, 0, 1>>
prewittY == <<-1, -1, -1, 0, 0, 0, 1, 1, 1>>
laplacian == <<0, 1, 0, 1, -4, 1, 0, 1, 0>>

(* magnitude squared of a two-kernel operator: the interior pixels only *)
KernelMagnitudeSq(data, w, h, kernelX, kernelY) ==
    LET grayData == grayscale(data)
    IN  [i \in Cells(w, h) |->
            IF Interior(i, w, h)
            THEN LET gx == Convolve(grayData, w, i, kernelX)
                     gy == Convolve(grayData, w, i, kernelY)
                 IN  gx * gx + gy * gy
            ELSE 0]

sobelEdgeDetection(data, w, h) == KernelMagnitudeSq(data, w, h, sobelX, sobelY)

prewittEdgeDetection(data, w, h) == KernelMagnitudeSq(data, w, h, prewittX, prewittY)

robertsEdgeDetection(data, w, h) ==
    LET grayData == grayscale(data)
    IN  [i \in Cells(w, h) |->
            IF i % w < w - 1 /\ i \div w < h - 1
            THEN LET gx == grayData[i] - grayData[i + w + 1]
                     gy == grayData[i + 1] - grayData[i + w]
                 IN  gx * gx + gy * gy
            ELSE 0]

laplacianEdgeDetection(data, w, h) ==
    LET grayData == grayscale(data)
    IN  [i \in Cells(w, h) |->
            IF Interior(i, w, h)
            THEN LET value == Convolve(grayData, w, i, laplacian)
                 IN  value * value
            ELSE 0]

RECURSIVE GCD(_, _)
GCD(a, b) == IF b = 0 THEN a ELSE GCD(b, a % b)

RECURSIVE MaxOver(_, _, _)
MaxOver(grid, i, best) ==
    IF i \notin DOMAIN grid THEN best
    ELSE MaxOver(grid, i + 1, Max2(best, grid[i]))

(* Math.min(255, Math.round(magnitude * (255 / maxMag))) for the squared    *)
(* magnitudes magSq, maxSq: the v with v - 1/2 <= 255 sqrt(magSq / maxSq)   *)
(* < v + 1/2; 0 when maxMag is 0 (the product is NaN)                       *)
ScaleMagnitude(magSq, maxSq) ==
    IF maxSq = 0 THEN 0
    ELSE LET g == GCD(maxSq, magSq)
             m == magSq \div g
             mx == maxSq \div g
         IN  CHOOSE v \in 0 .. 255 :
                 /\ (2 * v - 1) * (2 * v - 1) * mx <= 260100 * m \/ v = 0
                 /\ 260100 * m < (2 * v + 1) * (2 * v + 1) * mx \/ v = 255

(* the result of the cases 'sobel', 'prewitt', 'roberts', 'laplacian' *)
ScaledGradient(magnitudeSq) ==
    LET maxSq == MaxOver(magnitudeSq, 0, 0)
    IN  [i \in DOMAIN magnitudeSq |-> ScaleMagnitude(magnitudeSq[i], maxSq)]

RECURSIVE dilate(_, _, _, _)
dilate(bin, w, h, iterations) ==
    IF iterations <= 0 THEN bin
    ELSE dilate([i \in DOMAIN bin |->
                    IF /\ Interior(i, w, h)
                       /\ bin[i] = 0
                       /\ \E ky \in -1 .. 1, kx \in -1 .. 1 : bin[i + ky * w + kx] > 0
                    THEN 255 ELSE bin[i]],
                w, h, iterations - 1)

RECURSIVE erode(_, _, _, _)
erode(bin, w, h, iterations) ==
    IF iterations <= 0 THEN bin
    ELSE erode([i \in DOMAIN bin |->
                   IF /\ Interior(i, w, h)
                      /\ bin[i] # 0
                      /\ \E ky \in -1 .. 1, kx \in -1 .. 1 : bin[i + ky * w + kx] = 0
                   THEN 0 ELSE bin[i]],
               w, h, iterations - 1)

morphClose(bin, w, h, iterations) == erode(dilate(bin, w, h, iterations), w, h, iterations)

(* What nonMaximumSuppression can hand to doubleThreshold: 0 on the border, *)
(* which its loops never write, and on each interior pixel a magnitude      *)
(* below lowThreshold, between the thresholds, or at highThreshold or more. *)
(* The magnitudes come out of floating-point sums of gaussianBlur and stay  *)
(* open here: every such grid is taken.                                     *)
SuppressedGrids(w, h, lowThreshold, highThreshold) ==
    LET inner == { i \in Cells(w, h) : Interior(i, w, h) }
    IN  { [i \in Cells(w, h) |-> IF i \in inner THEN s[i] ELSE 0] :
          s \in [inner -> {0, lowThreshold, highThreshold}] }

LibraryEdgeMethods == {"canny", "sobel", "prewitt", "roberts", "laplacian"}

(* detectEdges; suppressed is the grid of the 'canny' case *)
detectEdges(img, options, suppressed) ==
    LET w == img.width
        h == img.height
        processedImage == IF options.applyNoiseReduction THEN medianFilter(img.data, w, h)
                          ELSE img.data
    IN  CASE options.method = "canny" ->
                 Returned(doubleThreshold(suppressed, w, h, options.lowThreshold,
                                          options.highThreshold))
          [] options.method = "sobel" ->
                 Returned(ScaledGradient(sobelEdgeDetection(processedImage, w, h)))
          [] options.method = "prewitt" ->
                 Returned(ScaledGradient(prewittEdgeDetection(processedImage, w, h)))
          [] options.method = "roberts" ->
                 Returned(ScaledGradient(robertsEdgeDetection(processedImage, w, h)))
          [] options.method = "laplacian" ->
                 Returned(ScaledGradient(laplacianEdgeDetection(processedImage, w, h)))
          [] OTHER -> Thrown("Unknown edge detection method")

(* The images: white (255) with at most EdgeMaxDark black (0) pixels, 3     *)
(* rows, 3 to EdgeMaxW columns; every edge method the options can name,     *)
(* with and without the median filter.                                      *)
EdgeMaxW == 4
EdgeMaxDark == 4

EdgeHeights == {3}

EdgeImages ==
    UNION { { [data |-> [i \in Cells(w, h) |-> IF i \in dark THEN 0 ELSE 255],
               width |-> w, height |-> h] :
              dark \in { d \in SUBSET Cells(w, h) : Cardinality(d) <= EdgeMaxDark } } :
            <<w, h>> \in (3 .. EdgeMaxW) \X EdgeHeights }

EdgeOptions ==
    [method : EdgeMethods \cup {"bogus"}, lowThreshold : {50}, highThreshold : {150},
     applyNoiseReduction : BOOLEAN]

InitEdges ==
    /\ pc = "convert:edges"
    /\ image \in EdgeImages
    /\ width = image.width
    /\ height = image.height
    /\ opts \in EdgeOptions
    /\ cleanedEdges = Idle
    /\ DTIdle /\ AccIdle /\ DPIdle /\ ZSIdle /\ RCIdle /\ PostIdle /\ DrawIdle

(* stage 3 of convert: detectEdges, then morphClose with one iteration; an  *)
(* exception ends the conversion                                            *)
ConvertEdges ==
    /\ pc = "convert:edges"
    /\ \E suppressed \in IF opts.method = "canny"
                          THEN SuppressedGrids(width, height, opts.lowThreshold,
                                               opts.highThreshold)
                          ELSE {Idle} :
           LET detected == detectEdges(image, opts, suppressed)
           IN  IF detected.thrown
               THEN pc' = "convert:failed" /\ cleanedEdges' = cleanedEdges
               ELSE /\ pc' = "convert:contours"
                    /\ cleanedEdges' = morphClose(detected.value, width, height, 1)
    /\ UNCHANGED <<width, height, image, opts, dtVars, accVars, dpVars, zsVars, rcVars,
                   postVars, drawVars>>

NextEdges == ConvertEdges

SpecEdges == InitEdges /\ [][NextEdges]_vars

(* C11: every mask the edge extractor hands to the contour tracer holds     *)
(* only the values 0 and 255, whatever the edge method; no WEAK value is    *)
(* left by the dual threshold.                                              *)
C11_MaskIsBinary ==
    pc = "convert:contours" => \A i \in DOMAIN cleanedEdges : cleanedEdges[i] \in {0, 255}

----------------------------------------------------------------------------
(* Claims on the request handler *)

(* the request is a white w x h image, w >= 10, whose row y is black, sent  *)
(* without options                                                          *)
IsRowRequest(req, y) ==
    /\ req.width >= 10 /\ req.height >= 1
    /\ y \in 0 .. req.height - 1
    /\ req.options = NoOptions
    /\ req.imageData = ImageBuffer(req.width, req.height, RowOf(req.width, y), Black, White)

(* C12: for a white image at least 10 pixels wide whose only other pixels   *)
(* are one full-width black row y, the skeleton pipeline with the default   *)
(* options answers exactly one path, from (0, y) to (W-1, y), coloured      *)
(* black, and exactly one layer and one colour group.                       *)
C12_OneBlackRowOnePath ==
    \A y \in 0 .. 2 :
        (pc = "post:done" /\ IsRowRequest(request, y)) =>
            /\ response.status = 200
            /\ response.body.pathCount = 1
            /\ Len(response.body.svg.paths) = 1
            /\ LET path == response.body.svg.paths[1]
                   pts == path.d.points
               IN  /\ pts[1] = Pt(0, 2 * y)
                   /\ pts[Len(pts)] = Pt(2 * (request.width - 1), 2 * y)
                   /\ \A k \in DOMAIN pts : pts[k].y = 2 * y
                   /\ path.color = Black
                   /\ path.stroke = <<0, 0, 0, 0, 0, 0>>
            /\ response.body.layerCount = 1
            /\ Len(response.body.colorGroups) = 1

C12_Witness ==
    /\ pc = "post:done"
    /\ IsRowRequest(request, 1)
    /\ request.height = 3
    /\ response.status = 200
    /\ response.body.pathCount = 1

(* the request is a w x h image, w, h >= 1, of opaque white pixels *)
IsWhiteRequest(req) ==
    /\ req.width >= 1 /\ req.height >= 1
    /\ req.imageData = ImageBuffer(req.width, req.height, {}, Black, White)

(* C13: for an image whose pixels are all opaque white the pipeline ends    *)
(* without error, with zero paths, zero layers and no colour group.         *)
C13_WhiteImageNoPaths ==
    (pc = "post:done" /\ IsWhiteRequest(request)) =>
        /\ response.status = 200
        /\ "error" \notin DOMAIN response.body
        /\ response.body.pathCount = 0
        /\ response.body.svg.paths = <<>>
        /\ response.body.layerCount = 0
        /\ response.body.colorGroups = <<>>

C13_Witness ==
    /\ pc = "post:done"
    /\ IsWhiteRequest(request)
    /\ request.width >= 10 /\ request.height = 3
    /\ response.status = 200
    /\ response.body.layerCount = 0

IsByte(v) == v \in 0 .. 255

(* '#' and six hexadecimal digits *)
IsHexColor(stroke) == Len(stroke) = 6 /\ \A k \in DOMAIN stroke : stroke[k] \in 0 .. 15

(* C14: every colour of the extracted line palette has r, g and b integers  *)
(* in 0..255, whatever the image, so the stroke of every emitted path is    *)
(* '#' followed by exactly six hexadecimal digits.                          *)
C14_PaletteChannelsAreBytes ==
    pc = "post:done" =>
        /\ \A k \in DOMAIN lineColors :
               IsByte(lineColors[k].r) /\ IsByte(lineColors[k].g) /\ IsByte(lineColors[k].b)
        /\ response.status = 200 =>
               \A k \in DOMAIN response.body.svg.paths :
                   IsHexColor(response.body.svg.paths[k].stroke)

----------------------------------------------------------------------------
(* A conversion followed by the refiner's gap fill: the handler's coloured  *)
(* contours (route handler 890-906) are handed to fillGaps                  *)
(* (svg-refiner.ts 357-429) with the handler's edge mask as the reference.  *)

RingMaxW == 5
RingMaxH == 4

Green == [r |-> 0, g |-> 128, b |-> 0, a |-> 255]

(* the outline of the rectangle with the corners (x0, y0) and (x1, y1) *)
RingOf(w, x0, y0, x1, y1) ==
    { y * w + x : <<x, y>> \in { c \in (x0 .. x1) \X (y0 .. y1) :
                                   c[1] \in {x0, x1} \/ c[2] \in {y0, y1} } }

Rings(w, h) ==
    { RingOf(w, x0, y0, x1, y1) :
        <<x0, y0, x1, y1>> \in { r \in (0 .. w - 1) \X (0 .. h - 1) \X (0 .. w - 1) \X (0 .. h - 1) :
                                   r[3] >= r[1] + 2 /\ r[4] >= r[2] + 2 } }

(* White images with one rectangle outlined in black or in green, sent      *)
(* without options or with a minArea of 0 or 50.                            *)
RingRequests ==
    { [imageData |-> ImageBuffer(RingMaxW, RingMaxH, ink, fg, White),
       width |-> RingMaxW, height |-> RingMaxH, options |-> o] :
      ink \in Rings(RingMaxW, RingMaxH), fg \in {Black, Green},
      o \in { NoOptions, [minArea |-> 0], [minArea |-> 50] } }

(* coloredContours of the handler as the refiner's PathData *)
ColoredContours(body) ==
    [k \in DOMAIN body.svg.paths |->
        [points |-> body.svg.paths[k].d.points,
         color |-> body.svg.paths[k].color,
         strokeWidth |-> 1,
         closed |-> body.svg.paths[k].d.closed,
         id |-> <<"path", k - 1>>]]

InitPalette ==
    /\ pc = "post:request"
    /\ request \in RingRequests
    /\ width = request.width
    /\ height = request.height
    /\ response = Idle
    /\ lineColors = Idle
    /\ opts = Idle
    /\ DTIdle /\ AccIdle /\ DPIdle /\ ZSIdle /\ RCIdle /\ LibIdle /\ DrawIdle

(* fillGaps on the paths of the answer, the reference being the edge mask   *)
(* the handler traced; gapFillMinCluster is the caller's, 20 by default     *)
GapFill ==
    /\ pc = "post:done"
    /\ response.status = 200
    /\ paths' = ColoredContours(response.body)
    /\ referenceEdges' = PostEdges([request EXCEPT !.options = opts]).value
    /\ svgEdges' = rasterizePaths(paths', width, height)
    /\ \E gapFillMinCluster \in {6, 20} :
           result' = fillGaps(paths', referenceEdges', svgEdges', width, height,
                              gapFillMinCluster, 2000)
    /\ pc' = "fillGaps:done"
    /\ UNCHANGED <<width, height, opts, score, currentPaths, currentScore, beforeScore,
                   iterationsUsed, iter, measured, applied,
                   dtVars, dpVars, zsVars, postVars, libVars, drawVars>>

NextPalette == POST \/ GapFill

SpecPalette == InitPalette /\ [][NextPalette]_vars

PaletteOf(colors) == { colors[k] : k \in DOMAIN colors }

(* C15: within one conversion the palette is not empty and every output     *)
(* path carries a colour that is an entry of the palette, the paths         *)
(* coloured by sampling and the paths appended by the gap fill alike.       *)
C15_PathColoursInPalette ==
    /\ (pc \in {"post:done", "fillGaps:done"} /\ response.status = 200) =>
           /\ lineColors # <<>>
           /\ \A k \in DOMAIN response.body.svg.paths :
                  response.body.svg.paths[k].color \in PaletteOf(lineColors)
    /\ pc = "fillGaps:done" =>
           \A k \in DOMAIN result : result[k].color \in PaletteOf(lineColors)

(* the chains detectContours returns for the edge mask of the request *)
TracedChains(req) ==
    detectEdgeChains(PostEdges(req).value, req.width, req.height)

(* the path is the open polyline of the chain: no closing marker, from the  *)
(* first pixel of the chain to its last, through pixels of the chain        *)
IsOpenPolylineOf(path, chain) ==
    /\ path.d.closed = FALSE
    /\ Len(chain) >= 3
    /\ path.d.points[1] = chain[1]
    /\ path.d.points[Len(path.d.points)] = chain[Len(chain)]
    /\ \A k \in DOMAIN path.d.points : \E j \in DOMAIN chain : path.d.points[k] = chain[j]

(* C16: in edge-chain mode every traced chain of at least 3 pixels is       *)
(* emitted as exactly one open polyline, and no shorter chain is emitted:   *)
(* the paths of the answer are, in order, the polylines of the chains.      *)
C16_ChainsEmittedOpen ==
    (pc = "post:done" /\ response.status = 200) =>
        LET chains == TracedChains([request EXCEPT !.options = opts])
            emitted == response.body.svg.paths
        IN  /\ Len(emitted) = Len(chains)
            /\ \A k \in DOMAIN emitted : IsOpenPolylineOf(emitted[k], chains[k])

----------------------------------------------------------------------------
(* A call of removeSpuriousPaths, svg-refiner.ts 308-350, on a grid of one  *)
(* row: up to two paths of 2 to SpMaxPts points on three anchors (x = 0,    *)
(* x = 2.5 and x = 6), or one path of SpRunLen points of which the first    *)
(* k lie off the grid; a reference of at most two pixels; a threshold of    *)
(* 0.5 or the default 0.7.                                                  *)

SpWidth == 7
SpMaxPts == 4
SpRunLen == 10

SpAnchors == { Pt(0, 0), Pt(5, 0), Pt(2 * (SpWidth - 1), 0) }

SpPath(pts, closed, n) ==
    [points |-> pts, color |-> Red, strokeWidth |-> 1, closed |-> closed, id |-> <<"path", n>>]

SpPointSeqs == { q \in SeqsUpTo(SpAnchors, SpMaxPts) : Len(q) >= 2 }

(* k points far off the grid, then points on the pixel x = 0 *)
SpRun(k) == [j \in 1 .. SpRunLen |-> IF j <= k THEN Pt(-20, 0) ELSE Pt(0, 0)]

SpInputs ==
    { <<>> }
    \cup { <<SpPath(q, FALSE, 0)>> : q \in SpPointSeqs }
    \cup { <<SpPath(SpRun(k), TRUE, 0)>> : k \in 0 .. SpRunLen }
    \cup { <<SpPath(q, FALSE, 0), SpPath(r, TRUE, 1)>> :
             q \in SpPointSeqs, r \in { t \in SpPointSeqs : Len(t) = SpMaxPts } }

SpReferences ==
    { [i \in Cells(SpWidth, 1) |-> IF i \in on THEN 255 ELSE 0] :
        on \in { {}, {0}, {SpWidth - 1}, {0, SpWidth - 1} } }

SpThresholds == { <<1, 2>>, <<7, 10>> }

InitSpurious ==
    /\ pc = "removeSpuriousPaths:call"
    /\ width = SpWidth
    /\ height = 1
    /\ paths \in SpInputs
    /\ referenceEdges \in SpReferences
    /\ opts \in [spuriousThreshold : SpThresholds]
    /\ result = Idle
    /\ svgEdges = Idle /\ score = Idle
    /\ currentPaths = Idle /\ currentScore = Idle /\ beforeScore = Idle
    /\ iterationsUsed = 0 /\ iter = 0 /\ measured = Idle /\ applied = Idle
    /\ DTIdle /\ DPIdle /\ ZSIdle /\ PostIdle /\ LibIdle /\ DrawIdle

RemoveSpuriousPaths ==
    /\ pc = "removeSpuriousPaths:call"
    /\ result' = removeSpuriousPaths(paths, referenceEdges, width, height,
                                     opts.spuriousThreshold)
    /\ pc' = "removeSpuriousPaths:done"
    /\ UNCHANGED <<width, height, paths, referenceEdges, opts, svgEdges, score,
                   currentPaths, currentScore, beforeScore, iterationsUsed, iter,
                   measured, applied, dtVars, dpVars, zsVars, postVars, libVars, drawVars>>

NextSpurious == RemoveSpuriousPaths

SpecSpurious == InitSpurious /\ [][NextSpurious]_vars

(* the points of the path with no reference pixel within radius 2 of the    *)
(* rounded point                                                            *)
UnmatchedPoints(path) ==
    { j \in DOMAIN path.points :
        \A dx, dy \in -2 .. 2 :
            LET nx == Round(path.points[j].x) + dx
                ny == Round(path.points[j].y) + dy
            IN  InGrid(nx, ny, width, height) => referenceEdges[ny * width + nx] = 0 }

(* the fraction of unmatched points strictly exceeds the threshold *)
ExceedsThreshold(path) ==
    Cardinality(UnmatchedPoints(path)) * opts.spuriousThreshold[2]
        > opts.spuriousThreshold[1] * Len(path.points)

ClaimedKept(path) == Len(path.points) >= 3 /\ ~ExceedsThreshold(path)

(* C17: removeSpuriousPaths drops a path of at least 3 points exactly when  *)
(* the fraction of its points without a reference pixel within radius 2     *)
(* strictly exceeds spuriousThreshold (a path whose fraction equals the     *)
(* threshold is kept), drops every path of fewer than 3 points, and returns *)
(* the kept paths unchanged and in their order.                             *)
C17_SpuriousDroppedAboveThreshold ==
    pc = "removeSpuriousPaths:done" => result = SelectSeq(paths, ClaimedKept)

----------------------------------------------------------------------------
(* A call of snapPathsToEdges, svg-refiner.ts 255-302: up to two paths of   *)
(* one or two points, on pixels, between pixels and off the grid; a         *)
(* reference of at most SnapMaxRef pixels; a radius of 1 to 3.              *)

SnapW == 4
SnapH == 3
SnapMaxRef == 3

SnapPoints ==
    { Pt(-3, -1), Pt(1, 1), Pt(3, 2), Pt(2 * (SnapW - 1), 2 * (SnapH - 1)), Pt(2 * SnapW + 2, 4) }

SnapPath(pts, closed, color, n) ==
    [points |-> pts, color |-> color, strokeWidth |-> 1, closed |-> closed, id |-> <<"path", n>>]

SnapPointSeqs == { q \in SeqsUpTo(SnapPoints, 2) : Len(q) >= 1 }

SnapInputs ==
    { <<>> }
    \cup { <<SnapPath(q, FALSE, Red, 0)>> : q \in SnapPointSeqs }
    \cup { <<SnapPath(q, TRUE, Blue, 0), SnapPath(<<Pt(3, 2)>>, FALSE, Black, 1)>> :
             q \in SnapPointSeqs }

SnapReferences ==
    { [i \in Cells(SnapW, SnapH) |-> IF i \in on THEN 255 ELSE 0] :
        on \in { s \in SUBSET Cells(SnapW, SnapH) : Cardinality(s) <= SnapMaxRef } }

InitSnap ==
    /\ pc = "snapPathsToEdges:call"
    /\ width = SnapW
    /\ height = SnapH
    /\ paths \in SnapInputs
    /\ referenceEdges \in SnapReferences
    /\ opts \in [snapRadius : 1 .. 3]
    /\ result = Idle
    /\ svgEdges = Idle /\ score = Idle
    /\ currentPaths = Idle /\ currentScore = Idle /\ beforeScore = Idle
    /\ iterationsUsed = 0 /\ iter = 0 /\ measured = Idle /\ applied = Idle
    /\ DTIdle /\ DPIdle /\ ZSIdle /\ PostIdle /\ LibIdle /\ DrawIdle

SnapPathsToEdges ==
    /\ pc = "snapPathsToEdges:call"
    /\ result' = snapPathsToEdges(paths, referenceEdges, width, height, opts.snapRadius)
    /\ pc' = "snapPathsToEdges:done"
    /\ UNCHANGED <<width, height, paths, referenceEdges, opts, svgEdges, score,
                   currentPaths, currentScore, beforeScore, iterationsUsed, iter,
                   measured, applied, dtVars, dpVars, zsVars, postVars, libVars, drawVars>>

NextSnap == SnapPathsToEdges

SpecSnap == InitSnap /\ [][NextSnap]_vars

(* the reference pixels <<x, y>> of the square of radius snapRadius around  *)
(* the rounded position of the point                                        *)
SquareRefs(point) ==
    { q \in (0 .. width - 1) \X (0 .. height - 1) :
        /\ referenceEdges[q[2] * width + q[1]] > 0
        /\ Abs(q[1] - Round(point.x)) <= opts.snapRadius
        /\ Abs(q[2] - Round(point.y)) <= opts.snapRadius }

(* squared distance of the pixel from the rounded position of the point *)
SnapDistSq(q, point) ==
    (q[1] - Round(point.x)) * (q[1] - Round(point.x))
    + (q[2] - Round(point.y)) * (q[2] - Round(point.y))

RowMajorBefore(q, r) == q[2] < r[2] \/ (q[2] = r[2] /\ q[1] <= r[1])

OnReference(point) == <<Round(point.x), Round(point.y)>> \in SquareRefs(point)

(* what the claim says of one point and the point returned for it *)
SnappedAsClaimed(point, snapped) ==
    IF OnReference(point) \/ SquareRefs(point) = {}
    THEN snapped = point
    ELSE \E q \in SquareRefs(point) :
            /\ snapped = Pt(2 * q[1], 2 * q[2])
            /\ \A r \in SquareRefs(point) :
                  \/ SnapDistSq(q, point) < SnapDistSq(r, point)
                  \/ SnapDistSq(q, point) = SnapDistSq(r, point) /\ RowMajorBefore(q, r)

(* C18: snapPathsToEdges leaves a point unchanged when its rounded position *)
(* is a reference pixel or when the square of radius snapRadius around it   *)
(* holds no reference pixel; otherwise the point becomes the reference      *)
(* pixel of the square nearest (in squared distance) to the rounded         *)
(* position, the first in row-major order among equals.  The number of      *)
(* paths, the number of points of each path, and the colour, closed flag,   *)
(* stroke width and id of each path are unchanged.                          *)
C18_SnapToNearestReference ==
    pc = "snapPathsToEdges:done" =>
        /\ Len(result) = Len(paths)
        /\ \A k \in DOMAIN paths :
              /\ Len(result[k].points) = Len(paths[k].points)
              /\ result[k].color = paths[k].color
              /\ result[k].closed = paths[k].closed
              /\ result[k].id = paths[k].id
              /\ result[k].strokeWidth = paths[k].strokeWidth
              /\ \A j \in DOMAIN paths[k].points :
                    SnappedAsClaimed(paths[k].points[j], result[k].points[j])

(* a point between pixels was moved, and two reference pixels of its square *)
(* are equally near                                                         *)
C18_Witness ==
    /\ pc = "snapPathsToEdges:done"
    /\ Len(paths) = 2
    /\ \E j \in DOMAIN paths[1].points :
          LET point == paths[1].points[j]
          IN  /\ result[1].points[j] # point
              /\ \E q, r \in SquareRefs(point) :
                    /\ q # r
                    /\ SnapDistSq(q, point) = SnapDistSq(r, point)
                    /\ \A t \in SquareRefs(point) : SnapDistSq(q, point) <= SnapDistSq(t, point)

----------------------------------------------------------------------------
(* A call of fillGaps, svg-refiner.ts 357-429: a reference made of a        *)
(* rectangle (filled or outlined) and a few far pixels, a rendered mask     *)
(* that is empty, a row, a column or one pixel, up to two existing paths,   *)
(* a minimum cluster of 1, 6 or the default 20, a tolerance of 1 or 2.      *)

GapW == 5
GapH == 4

Rects(w, h) ==
    { { y * w + x : <<x, y>> \in (r[1] .. r[3]) \X (r[2] .. r[4]) } :
        r \in { q \in (0 .. w - 1) \X (0 .. h - 1) \X (0 .. w - 1) \X (0 .. h - 1) :
                  q[3] >= q[1] /\ q[4] >= q[2] } }

GapReferences ==
    { [i \in Cells(GapW, GapH) |-> IF i \in shape \cup spot THEN 255 ELSE 0] :
        shape \in Rects(GapW, GapH) \cup Rings(GapW, GapH) \cup {{}},
        spot \in { {}, {GapW * GapH - 1}, {0, 1} } }

GapRendered ==
    { EmptyMask(GapW, GapH),
      rasterizePaths(<<InputPath(<<Pt(0, 0), Pt(2 * (GapW - 1), 0)>>, FALSE)>>, GapW, GapH),
      rasterizePaths(<<InputPath(<<Pt(0, 0), Pt(0, 2 * (GapH - 1))>>, FALSE)>>, GapW, GapH),
      rasterizePaths(<<InputPath(<<Pt(0, 0), Pt(0, 0)>>, FALSE)>>, GapW, GapH) }

GapInputs ==
    { <<>>,
      <<InputPath(<<Pt(0, 0), Pt(2 * (GapW - 1), 0)>>, FALSE)>>,
      <<InputPath(<<Pt(0, 0), Pt(0, 2 * (GapH - 1))>>, TRUE),
        InputPath(<<Pt(1, 1)>>, FALSE)>> }

InitGaps ==
    /\ pc = "fillGaps:call"
    /\ width = GapW
    /\ height = GapH
    /\ paths \in GapInputs
    /\ referenceEdges \in GapReferences
    /\ svgEdges \in GapRendered
    /\ opts \in [gapFillMinCluster : {1, 6, 20}, distanceTolerance : {1000, 2000}]
    /\ result = Idle
    /\ score = Idle
    /\ currentPaths = Idle /\ currentScore = Idle /\ beforeScore = Idle
    /\ iterationsUsed = 0 /\ iter = 0 /\ measured = Idle /\ applied = Idle
    /\ DTIdle /\ DPIdle /\ ZSIdle /\ PostIdle /\ LibIdle /\ DrawIdle

CallFillGaps ==
    /\ pc = "fillGaps:call"
    /\ result' = fillGaps(paths, referenceEdges, svgEdges, width, height,
                          opts.gapFillMinCluster, opts.distanceTolerance)
    /\ pc' = "fillGaps:returned"
    /\ UNCHANGED <<width, height, paths, referenceEdges, opts, svgEdges, score,
                   currentPaths, currentScore, beforeScore, iterationsUsed, iter,
                   measured, applied, dtVars, dpVars, zsVars, postVars, libVars, drawVars>>

NextGaps == CallFillGaps

SpecGaps == InitGaps /\ [][NextGaps]_vars

(* the pixel i is farther than the tolerance (in thousandths) from every    *)
(* rendered pixel                                                           *)
FartherThanTolerance(i) ==
    \A s \in Cells(width, height) :
        svgEdges[s] > 0 =>
            LET dx == (i % width) - (s % width)
                dy == (i \div width) - (s \div width)
            IN  1000000 * (dx * dx + dy * dy) > opts.distanceTolerance * opts.distanceTolerance

UnmatchedReference ==
    { i \in Cells(width, height) : referenceEdges[i] > 0 /\ FartherThanTolerance(i) }

IsPixel(point) ==
    /\ point.x % 2 = 0 /\ point.y % 2 = 0
    /\ InGrid(point.x \div 2, point.y \div 2, width, height)

PixelOf(point) == (point.y \div 2) * width + (point.x \div 2)

(* the 8-connected component of unmatched reference pixels that holds i *)
UnmatchedComponentOf(i) == Flood({i}, UnmatchedReference, width)

(* a path traced from one component of at least gapFillMinCluster pixels *)
TracedFromLargeComponent(path) ==
    /\ path.points # <<>>
    /\ \A j \in DOMAIN path.points :
          IsPixel(path.points[j]) /\ PixelOf(path.points[j]) \in UnmatchedReference
    /\ LET component == UnmatchedComponentOf(PixelOf(path.points[1]))
       IN  /\ Cardinality(component) >= opts.gapFillMinCluster
           /\ \A j \in DOMAIN path.points : PixelOf(path.points[j]) \in component

(* C19: fillGaps returns the existing paths, unchanged and in order, as a   *)
(* prefix of its result; every appended path is black and all its points    *)
(* are pixels of one 8-connected component of unmatched reference pixels    *)
(* (reference pixels farther than the tolerance from every rendered pixel)  *)
(* that has at least gapFillMinCluster pixels, so that a smaller component  *)
(* contributes no path.                                                     *)
C19_GapFillAppendsBlackClusterPaths ==
    pc = "fillGaps:returned" =>
        /\ Len(result) >= Len(paths)
        /\ SubSeq(result, 1, Len(paths)) = paths
        /\ \A k \in Len(paths) + 1 .. Len(result) :
              /\ result[k].color = Black
              /\ TracedFromLargeComponent(result[k])

(* a path was appended to two existing ones while a component of fewer      *)
(* than gapFillMinCluster unmatched pixels was left without a path          *)
C19_Witness ==
    /\ pc = "fillGaps:returned"
    /\ Len(paths) = 2
    /\ Len(result) > Len(paths)
    /\ \E i \in UnmatchedReference :
          Cardinality(UnmatchedComponentOf(i)) < opts.gapFillMinCluster

----------------------------------------------------------------------------
(* rasterizePaths and drawLine, svg-refiner.ts 111-173, statement by        *)
(* statement: one action per branch of the loop over the paths and one per  *)
(* iteration of the while loop of drawLine.  result is the buffer           *)
(* rasterizePaths allocates; cursor.path is the path of the for loop,       *)
(* cursor.i the segment to draw next (Len(points) stands for the test of    *)
(* the closed flag); drawn records every call of drawLine with the pixel    *)
(* positions its loop went through.                                         *)

RasterW == 4
RasterH == 3
RasterMaxPts == 3

(* the locals of drawLine before its loop *)
LineLocals(p0, p1) ==
    LET x0 == Round(p0.x)
        y0 == Round(p0.y)
        x1 == Round(p1.x)
        y1 == Round(p1.y)
        dx == Abs(x1 - x0)
        dy == Abs(y1 - y0)
    IN  [x0 |-> x0, y0 |-> y0, x1 |-> x1, y1 |-> y1, dx |-> dx, dy |-> dy,
         sx |-> IF x0 < x1 THEN 1 ELSE -1,
         sy |-> IF y0 < y1 THEN 1 ELSE -1,
         err |-> dx - dy]

(* an iteration that moves along one axis only: 'else if (e2 < dx)' *)
BresenhamStep_OneAxis(l) ==
    LET e2 == 2 * l.err
    IN  IF e2 > -l.dy
        THEN [l EXCEPT !.err = @ - l.dy, !.x0 = @ + l.sx]
        ELSE IF e2 < l.dx
        THEN [l EXCEPT !.err = @ + l.dx, !.y0 = @ + l.sy]
        ELSE l

(* the locals after the two tests that end an iteration of the loop *)
BresenhamStep(l) ==
    LET e2 == 2 * l.err
        stepX == e2 > -l.dy
        stepY == e2 < l.dx
    IN  [l EXCEPT !.err = @ - (IF stepX THEN l.dy ELSE 0) + (IF stepY THEN l.dx ELSE 0),
                  !.x0 = IF stepX THEN @ + l.sx ELSE @,
                  !.y0 = IF stepY THEN @ + l.sy ELSE @]

(* path.closed && points.length > 2 *)
ClosesPath(path) == path.closed /\ Len(path.points) > 2

RasterPoints ==
    { Pt(0, 0), Pt(-3, 1), Pt(5, 2 * (RasterH - 1)), Pt(2 * (RasterW - 1), 0),
      Pt(2, 2 * RasterH + 3) }

RasterPath(pts, closed) ==
    [points |-> pts, color |-> Black, strokeWidth |-> 1, closed |-> closed, id |-> <<"path", 0>>]

RasterPool == { RasterPath(q, c) : q \in SeqsUpTo(RasterPoints, RasterMaxPts) \ {<<>>},
                                   c \in BOOLEAN }

RasterInputs ==
    { <<>> }
    \cup { <<p>> : p \in RasterPool }
    \cup { <<p, RasterPath(<<Pt(0, 2 * (RasterH - 1)), Pt(2 * (RasterW - 1), 0)>>, c)>> :
             p \in { q \in RasterPool : Len(q.points) <= 2 }, c \in BOOLEAN }

InitRaster ==
    /\ pc = "rasterizePaths:call"
    /\ width = RasterW
    /\ height = RasterH
    /\ paths \in RasterInputs
    /\ result = Idle
    /\ cursor = Idle /\ line = Idle /\ drawn = Idle
    /\ opts = Idle
    /\ currentPaths = Idle /\ currentScore = Idle /\ beforeScore = Idle
    /\ iterationsUsed = 0 /\ iter = 0 /\ measured = Idle /\ applied = Idle
    /\ DTIdle /\ AccIdle /\ DPIdle /\ ZSIdle /\ PostIdle /\ LibIdle

rasterFrame == <<width, height, paths, opts, currentPaths, currentScore, beforeScore,
                 iterationsUsed, iter, measured, applied,
                 dtVars, accVars, dpVars, zsVars, postVars, libVars>>

(* const result = new Uint8ClampedArray(width * height) *)
Rasterize ==
    /\ pc = "rasterizePaths:call"
    /\ result' = EmptyMask(width, height)
    /\ cursor' = [path |-> 1, i |-> 1]
    /\ pc' = "rasterizePaths:path"
    /\ UNCHANGED <<line, drawn, rasterFrame>>

AtPath == pc = "rasterizePaths:path" /\ cursor.path <= Len(paths)

(* if (points.length < 2) continue *)
SkipPath ==
    /\ AtPath
    /\ Len(paths[cursor.path].points) < 2
    /\ cursor' = [path |-> cursor.path + 1, i |-> 1]
    /\ UNCHANGED <<pc, result, line, drawn, rasterFrame>>

(* drawLine(result, width, height, points[i], points[i + 1]) *)
DrawSegment ==
    /\ AtPath
    /\ LET pts == paths[cursor.path].points
       IN  /\ Len(pts) >= 2
           /\ cursor.i <= Len(pts) - 1
           /\ line' = LineLocals(pts[cursor.i], pts[cursor.i + 1])
           /\ drawn' = Append(drawn, [path |-> cursor.path, from |-> cursor.i,
                                      to |-> cursor.i + 1, chain |-> <<>>])
    /\ pc' = "drawLine:loop"
    /\ UNCHANGED <<result, cursor, rasterFrame>>

(* drawLine(result, width, height, points[points.length - 1], points[0]) *)
ClosePath ==
    /\ AtPath
    /\ LET pts == paths[cursor.path].points
       IN  /\ Len(pts) >= 2
           /\ cursor.i = Len(pts)
           /\ ClosesPath(paths[cursor.path])
           /\ line' = LineLocals(pts[Len(pts)], pts[1])
           /\ drawn' = Append(drawn, [path |-> cursor.path, from |-> Len(pts),
                                      to |-> 1, chain |-> <<>>])
    /\ pc' = "drawLine:loop"
    /\ UNCHANGED <<result, cursor, rasterFrame>>

(* the end of the body of the for loop over the paths *)
NextPath ==
    /\ AtPath
    /\ LET pts == paths[cursor.path].points
       IN  /\ Len(pts) >= 2
           /\ \/ cursor.i = Len(pts) /\ ~ClosesPath(paths[cursor.path])
              \/ cursor.i > Len(pts)
    /\ cursor' = [path |-> cursor.path + 1, i |-> 1]
    /\ UNCHANGED <<pc, result, line, drawn, rasterFrame>>

(* return result *)
ReturnMask ==
    /\ pc = "rasterizePaths:path"
    /\ cursor.path > Len(paths)
    /\ pc' = "rasterizePaths:done"
    /\ UNCHANGED <<result, cursor, line, drawn, rasterFrame>>

(* the write of an iteration of the while loop *)
Marked ==
    IF InGrid(line.x0, line.y0, width, height)
    THEN [result EXCEPT ![line.y0 * width + line.x0] = 255]
    ELSE result

Visited == [drawn EXCEPT ![Len(drawn)].chain = Append(@, <<line.x0, line.y0>>)]

(* an iteration that ends in the break *)
DrawLineBreak ==
    /\ pc = "drawLine:loop"
    /\ line.x0 = line.x1 /\ line.y0 = line.y1
    /\ result' = Marked
    /\ drawn' = Visited
    /\ line' = Idle
    /\ cursor' = [cursor EXCEPT !.i = @ + 1]
    /\ pc' = "rasterizePaths:path"
    /\ UNCHANGED rasterFrame

(* an iteration that goes on *)
DrawLineStep ==
    /\ pc = "drawLine:loop"
    /\ ~(line.x0 = line.x1 /\ line.y0 = line.y1)
    /\ result' = Marked
    /\ drawn' = Visited
    /\ line' = BresenhamStep(line)
    /\ UNCHANGED <<pc, cursor, rasterFrame>>

NextRaster ==
    \/ Rasterize \/ SkipPath \/ DrawSegment \/ ClosePath \/ NextPath \/ ReturnMask
    \/ DrawLineBreak \/ DrawLineStep

SpecRaster == InitRaster /\ [][NextRaster]_vars

(* the rounded endpoints of the n-th call of drawLine *)
RoundedPoint(point) == <<Round(point.x), Round(point.y)>>
FirstEndpoint(n) == RoundedPoint(paths[drawn[n].path].points[drawn[n].from])
SecondEndpoint(n) == RoundedPoint(paths[drawn[n].path].points[drawn[n].to])

(* max(|dx|, |dy|) + 1 for the n-th call *)
ChainLength(n) ==
    Max2(Abs(SecondEndpoint(n)[1] - FirstEndpoint(n)[1]),
         Abs(SecondEndpoint(n)[2] - FirstEndpoint(n)[2])) + 1

CallReturned(n) == n < Len(drawn) \/ pc # "drawLine:loop"

(* consecutive positions are distinct and 8-adjacent *)
IsChain8(chain) ==
    \A j \in 1 .. Len(chain) - 1 :
        /\ chain[j] # chain[j + 1]
        /\ Abs(chain[j][1] - chain[j + 1][1]) <= 1
        /\ Abs(chain[j][2] - chain[j + 1][2]) <= 1

(* the loop of the n-th call goes through an 8-connected chain from the     *)
(* rounded first endpoint, never longer than max(|dx|, |dy|) + 1, and       *)
(* returns at the rounded second endpoint after exactly that many positions *)
WalksChain(n) ==
    LET chain == drawn[n].chain
    IN  /\ Len(chain) <= ChainLength(n)
        /\ IsChain8(chain)
        /\ chain # <<>> => chain[1] = FirstEndpoint(n)
        /\ CallReturned(n) => Len(chain) = ChainLength(n) /\ chain[Len(chain)] = SecondEndpoint(n)

(* the cells the calls so far went through *)
CellsWalked ==
    { q[2] * width + q[1] :
        q \in { c \in UNION { { drawn[n].chain[j] : j \in DOMAIN drawn[n].chain } :
                              n \in DOMAIN drawn } :
                  InGrid(c[1], c[2], width, height) } }

OnlyWalkedCellsSet ==
    /\ DOMAIN result = Cells(width, height)
    /\ \A i \in Cells(width, height) : result[i] = (IF i \in CellsWalked THEN 255 ELSE 0)

(* the calls of drawLine for the paths k .. : <<path, from, to>>; the       *)
(* closing segment is taken for every closed path (anyLength) or for the    *)
(* closed paths of more than two points                                     *)
RECURSIVE SegmentsFrom(_, _)
SegmentsFrom(k, anyLength) ==
    IF k > Len(paths) THEN <<>>
    ELSE LET n == Len(paths[k].points)
             closes == paths[k].closed /\ (anyLength \/ n > 2)
         IN  [i \in 1 .. n - 1 |-> <<k, i, i + 1>>]
             \o (IF closes THEN << <<k, n, 1>> >> ELSE <<>>)
             \o SegmentsFrom(k + 1, anyLength)

SegmentsDrawn == [n \in DOMAIN drawn |-> <<drawn[n].path, drawn[n].from, drawn[n].to>>]

----------------------------------------------------------------------------
(* Calls of one function on one grid: the grid is edges, the parameters    *)
(* are opts, the returned value is result; everything else is idle.        *)

CallIdle ==
    /\ dist = Idle
    /\ paths = Idle /\ currentPaths = Idle /\ currentScore = Idle /\ beforeScore = Idle
    /\ iterationsUsed = 0 /\ iter = 0 /\ measured = Idle /\ applied = Idle
    /\ AccIdle /\ DPIdle /\ ZSIdle /\ PostIdle /\ LibIdle /\ DrawIdle

callFrame == <<width, height, edges, opts, dist, paths, currentPaths, currentScore,
               beforeScore, iterationsUsed, iter, measured, applied,
               accVars, dpVars, zsVars, postVars, libVars, drawVars>>

----------------------------------------------------------------------------
(* Specification of a doubleThreshold call on every grid of suppressed     *)
(* magnitudes up to HystW x HystH, with thresholds low <= high.            *)

HystW == 3
HystH == 3

HystMagnitudes == {0, 50, 150}

HystThresholds ==
    { [lowThreshold |-> 50, highThreshold |-> 150],
      [lowThreshold |-> 100, highThreshold |-> 100],
      [lowThreshold |-> 50, highThreshold |-> 50] }

InitHyst ==
    /\ pc = "doubleThreshold:call"
    /\ width \in 1 .. HystW
    /\ height \in 1 .. HystH
    /\ edges \in [Cells(width, height) -> HystMagnitudes]
    /\ opts \in HystThresholds
    /\ result = Idle
    /\ CallIdle

DoubleThreshold ==
    /\ pc = "doubleThreshold:call"
    /\ result' = doubleThreshold(edges, width, height, opts.lowThreshold, opts.highThreshold)
    /\ pc' = "doubleThreshold:done"
    /\ UNCHANGED callFrame

NextHyst == DoubleThreshold

SpecHyst == InitHyst /\ [][NextHyst]_vars

(* the pixels whose magnitude is at least t *)
AtLeast(t) == { i \in Cells(width, height) : edges[i] >= t }

(* the pixels joined to a pixel of magnitude >= high through 8-adjacent     *)
(* pixels of magnitude >= low                                               *)
JoinedToStrong ==
    Flood(AtLeast(opts.highThreshold), AtLeast(opts.lowThreshold), width)

(* C21: doubleThreshold ends, and a pixel ends as 255 exactly when its      *)
(* magnitude is at least low and a chain of 8-adjacent pixels of magnitude  *)
(* at least low joins it to a pixel of magnitude at least high; every other *)
(* pixel ends as 0; border pixels included.                                 *)
C21_HysteresisJoinsWeakToStrong ==
    pc = "doubleThreshold:done" =>
        \A i \in Cells(width, height) :
            result[i] = (IF i \in JoinedToStrong THEN 255 ELSE 0)

----------------------------------------------------------------------------
(* Specification of mooreContourTracing, image-processor.ts 859-982, one   *)
(* action per iteration of the do-while loop of traceMooreContour.         *)
(* binary is the mask, cursor the scan position and the visited array,     *)
(* line the locals of the running trace, points its points so far, result  *)
(* the contours pushed, drawn the finished traces with the exit taken.     *)

MooreW == 4
MooreH == 3

InitMoore ==
    /\ pc = "moore:scan"
    /\ width \in 1 .. MooreW
    /\ height \in 1 .. MooreH
    /\ binary \in Masks(width, height)
    /\ cursor = [idx |-> 0, visited |-> {}]
    /\ line = Idle
    /\ points = <<>>
    /\ drawn = <<>>
    /\ result = <<>>
    /\ skeleton = Idle /\ rethinned = Idle /\ keep = Idle /\ simplified = Idle
    /\ edges = Idle /\ opts = Idle /\ dist = Idle
    /\ paths = Idle /\ currentPaths = Idle /\ currentScore = Idle /\ beforeScore = Idle
    /\ iterationsUsed = 0 /\ iter = 0 /\ measured = Idle /\ applied = Idle
    /\ AccIdle /\ PostIdle /\ LibIdle

mooreFrame == <<width, height, binary, skeleton, rethinned, keep, simplified, edges, opts,
                dist, paths, currentPaths, currentScore, beforeScore, iterationsUsed,
                iter, measured, applied, accVars, postVars, libVars>>

(* the pixels the scan still traces from: set, not visited, left neighbour  *)
(* background                                                               *)
MooreStarts ==
    { i \in cursor.idx .. width * height - 1 :
        /\ binary[i] # 0
        /\ i \notin cursor.visited
        /\ ~(i % width > 0 /\ binary[i - 1] > 0) }

(* the scan reaches its next starting point and calls traceMooreContour *)
ScanTrace ==
    /\ pc = "moore:scan"
    /\ MooreStarts # {}
    /\ LET first == SetMin(MooreStarts)
       IN  /\ cursor' = [cursor EXCEPT !.idx = first]
           /\ line' = [x |-> first % width, y |-> first \div width, dir |-> 0,
                       firstStep |-> TRUE,
                       startXx |-> first % width, startYy |-> first \div width]
    /\ points' = <<>>
    /\ pc' = "moore:trace"
    /\ UNCHANGED <<result, drawn, mooreFrame>>

(* the scan ends: return contours *)
ScanReturn ==
    /\ pc = "moore:scan"
    /\ MooreStarts = {}
    /\ pc' = "moore:done"
    /\ UNCHANGED <<cursor, line, points, result, drawn, mooreFrame>>

(* the direction the for loop of the running iteration finds *)
FoundDir == MooreNextDir(binary, width, height, line.x, line.y, (line.dir + 5) % 8, 0)

(* the exit the running iteration takes: "none" for if (!found) break,      *)
(* "start" for the break on the return to the start, "cap" for the loop     *)
(* condition, "" when the loop goes on                                      *)
MooreExit ==
    IF FoundDir = NoDirection THEN "none"
    ELSE IF /\ ~line.firstStep
            /\ line.x + Directions[FoundDir + 1][1] = line.startXx
            /\ line.y + Directions[FoundDir + 1][2] = line.startYy
    THEN "start"
    ELSE IF Len(points) + 1 < width * height THEN ""
    ELSE "cap"

(* an iteration after which the loop goes on *)
TraceStep ==
    /\ pc = "moore:trace"
    /\ MooreExit = ""
    /\ points' = Append(points, Pt(2 * line.x, 2 * line.y))
    /\ cursor' = [cursor EXCEPT !.visited = @ \cup {line.y * width + line.x}]
    /\ line' = [line EXCEPT !.x = @ + Directions[FoundDir + 1][1],
                            !.y = @ + Directions[FoundDir + 1][2],
                            !.dir = FoundDir,
                            !.firstStep = FALSE]
    /\ UNCHANGED <<pc, result, drawn, mooreFrame>>

(* the last iteration, the return of the contour and the push of the scan *)
TraceEnd ==
    /\ pc = "moore:trace"
    /\ MooreExit # ""
    /\ LET pushed == Append(points, Pt(2 * line.x, 2 * line.y))
           contour == [points |-> pushed, isClosed |-> Len(pushed) >= 3,
                       area8 |-> calculateContourArea8(pushed)]
       IN  /\ points' = pushed
           /\ drawn' = Append(drawn, [contour |-> contour, exit |-> MooreExit])
           /\ result' = IF Len(pushed) >= 3 THEN Append(result, contour) ELSE result
    /\ cursor' = [idx |-> cursor.idx + 1,
                  visited |-> cursor.visited \cup {line.y * width + line.x}]
    /\ pc' = "moore:scan"
    /\ UNCHANGED <<line, mooreFrame>>

NextMoore == ScanTrace \/ ScanReturn \/ TraceStep \/ TraceEnd

SpecMoore == InitMoore /\ [][NextMoore]_vars

(* the traces, step by step, give the contours of the scan as a whole *)
MooreStepsAgree ==
    pc = "moore:done" => result = mooreContourTracing(binary, width, height)

(* C22: no trace ends by re-entering its start pixel with fewer than 3      *)
(* points recorded, and every trace ends within width * height points.      *)
C22_MooreReturnNeedsThreePoints ==
    \A n \in DOMAIN drawn :
        /\ drawn[n].exit = "start" => Len(drawn[n].contour.points) >= 3
        /\ Len(drawn[n].contour.points) <= width * height

(* C23: a contour of the Moore tracer is flagged closed only when its trace *)
(* ended by rejoining its start pixel, not when it stopped because no       *)
(* neighbour was found or at the safety cap.                                *)
C23_ClosedOnlyWhenRejoinedStart ==
    \A n \in DOMAIN drawn :
        drawn[n].contour.isClosed => drawn[n].exit = "start"

----------------------------------------------------------------------------
(* Specification of the colouring of one contour by the route handler:     *)
(* findNearestColor(sampleColorAlongPath(data, width, height, points),     *)
(* lineColors).  image is the RGBA buffer, measured the sums r, g, b and   *)
(* count when the sampling loop ends, result the colour assigned.          *)

SampleW == 2
SampleMaxLen == 12

Grey == [r |-> 100, g |-> 100, b |-> 100, a |-> 255]

SampleColors == {Black, Red, Grey}

SamplePalettes == { <<Black>>, <<Black, Red>>, <<Red, Grey, Black>>, <<Grey, Grey>> }

(* the RGBA buffer of a row of pixels *)
RowBuffer(pixels) ==
    [i \in 0 .. 4 * Len(pixels) - 1 |->
        Channel(pixels[(i \div 4) + 1], i % 4)]

(* polylines of n points over the pixels of the row: on the first pixel,    *)
(* going right and left in turn, and on the last pixel from point 11 on     *)
SamplePolylines(n) ==
    { [i \in 1 .. n |-> Pt(0, 0)],
      [i \in 1 .. n |-> Pt(2 * ((i - 1) % SampleW) + 1, 0)],
      [i \in 1 .. n |-> IF i > 10 THEN Pt(2 * (SampleW - 1), 1) ELSE Pt(1, 1)] }

InitSample ==
    /\ pc = "sample:call"
    /\ width = SampleW
    /\ height = 1
    /\ image \in { RowBuffer(px) : px \in [1 .. SampleW -> SampleColors] }
    /\ \E n \in 1 .. SampleMaxLen : points \in SamplePolylines(n)
    /\ lineColors \in SamplePalettes
    /\ measured = Idle
    /\ result = Idle
    /\ keep = Idle /\ simplified = Idle /\ cleanedEdges = Idle
    /\ request = Idle /\ response = Idle
    /\ opts = Idle
    /\ paths = Idle /\ currentPaths = Idle /\ currentScore = Idle /\ beforeScore = Idle
    /\ iterationsUsed = 0 /\ iter = 0 /\ applied = Idle
    /\ DTIdle /\ AccIdle /\ ZSIdle /\ DrawIdle

AssignColor ==
    /\ pc = "sample:call"
    /\ measured' = SampleSum(image, width, height, points, 1,
                             Max2(1, Len(points) \div 10),
                             [r |-> 0, g |-> 0, b |-> 0, count |-> 0])
    /\ result' = findNearestColor(sampleColorAlongPath(image, width, height, points),
                                  lineColors)
    /\ pc' = "sample:done"
    /\ UNCHANGED <<width, height, image, points, lineColors, keep, simplified,
                   cleanedEdges, request, response, opts, paths, currentPaths,
                   currentScore, beforeScore, iterationsUsed, iter, applied,
                   dtVars, accVars, zsVars, drawVars>>

NextSample == AssignColor

SpecSample == InitSample /\ [][NextSample]_vars

(* count^2 times the square of the distance from a colour to the mean       *)
(* (r / count, g / count, b / count) of the samples                         *)
MeanDistSq(c, sum) ==
    (sum.count * c.r - sum.r) * (sum.count * c.r - sum.r)
    + (sum.count * c.g - sum.g) * (sum.count * c.g - sum.g)
    + (sum.count * c.b - sum.b) * (sum.count * c.b - sum.b)

(* C24: for a polyline of any length n >= 1 the sampling reads the image at *)
(* no more than 10 point indices, and the assigned colour is the palette    *)
(* entry of least Euclidean RGB distance to the mean of the sampled         *)
(* colours.                                                                 *)
C24_AtMostTenSamplesNearestColour ==
    pc = "sample:done" =>
        /\ measured.count <= 10
        /\ \E k \in DOMAIN lineColors : result = lineColors[k]
        /\ \A k \in DOMAIN lineColors :
              MeanDistSq(result, measured) <= MeanDistSq(lineColors[k], measured)

----------------------------------------------------------------------------
(* groupPathsBySimilarColor, svg-refiner.ts 1040-1065, and createLayers,   *)
(* converter 440-457.  The Map is the sequence of its entries in insertion *)
(* order, each [color, paths].                                             *)

(* the first key of the Map within the threshold of the colour, 0 for null *)
FirstSimilar(groups, color, threshold) ==
    LET similar == { g \in DOMAIN groups :
                       DistanceSq(color, groups[g].color) <= threshold * threshold }
    IN  IF similar = {} THEN 0 ELSE SetMin(similar)

(* the loop over the paths k .. *)
RECURSIVE GroupPaths(_, _, _, _)
GroupPaths(ps, k, threshold, groups) ==
    IF k > Len(ps) THEN groups
    ELSE LET foundGroup == FirstSimilar(groups, ps[k].color, threshold)
         IN  IF foundGroup # 0
             THEN GroupPaths(ps, k + 1, threshold,
                             [groups EXCEPT ![foundGroup].paths = Append(@, ps[k])])
             ELSE GroupPaths(ps, k + 1, threshold,
                             Append(groups, [color |-> ps[k].color, paths |-> <<ps[k]>>]))

groupPathsBySimilarColor(ps, threshold) == GroupPaths(ps, 1, threshold, <<>>)

createLayers(colorGroups) ==
    [g \in 1 .. Len(colorGroups) |->
        [id |-> <<"layer", g - 1>>, name |-> <<"Layer", g>>,
         color |-> colorGroups[g].color, paths |-> colorGroups[g].paths,
         visible |-> TRUE, locked |-> FALSE]]

(* Specification of the layer stage of convert on up to LayerMaxPaths      *)
(* paths; paths is the path array, opts the threshold, result the layers.  *)

LayerMaxPaths == 4

Shade(v) == [r |-> v, g |-> 0, b |-> 0, a |-> 255]

LayerColors == { Shade(0), Shade(25), Shade(40), Shade(60) }

LayerInputs ==
    { [k \in 1 .. Len(q) |->
          [points |-> <<Pt(0, 0), Pt(2, 0)>>, color |-> q[k], strokeWidth |-> 1,
           closed |-> FALSE, id |-> <<"path", k - 1>>]] :
      q \in SeqsUpTo(LayerColors, LayerMaxPaths) }

InitLayers ==
    /\ pc = "layers:call"
    /\ width = 0 /\ height = 0
    /\ paths \in LayerInputs
    /\ opts \in { [threshold |-> 30], [threshold |-> 15] }
    /\ result = Idle
    /\ edges = Idle /\ dist = Idle
    /\ currentPaths = Idle /\ currentScore = Idle /\ beforeScore = Idle
    /\ iterationsUsed = 0 /\ iter = 0 /\ measured = Idle /\ applied = Idle
    /\ AccIdle /\ DPIdle /\ ZSIdle /\ PostIdle /\ LibIdle /\ DrawIdle

CreateLayers ==
    /\ pc = "layers:call"
    /\ result' = createLayers(groupPathsBySimilarColor(paths, opts.threshold))
    /\ pc' = "layers:done"
    /\ UNCHANGED callFrame

NextLayers == CreateLayers

SpecLayers == InitLayers /\ [][NextLayers]_vars

(* the position of a path in the input, from its id *)
PathIndex(path) == path.id[2] + 1

(* the layers opened before the path came up *)
OpenedBefore(path) ==
    { m \in DOMAIN result : PathIndex(result[m].paths[1]) < PathIndex(path) }

WithinThreshold(path, m) ==
    DistanceSq(path.color, result[m].color) <= opts.threshold * opts.threshold

(* C25: every path is in exactly one bucket; a path joins the bucket open   *)
(* at its turn whose colour is nearest to its own among those within the    *)
(* threshold, or opens a bucket when none is within the threshold; layers   *)
(* come one per bucket in the order of the buckets' first paths, with ids   *)
(* layer-0, layer-1, ...                                                    *)
C25_LayersByNearestBucket ==
    pc = "layers:done" =>
        /\ \A k \in DOMAIN paths :
              Cardinality({ <<m, j>> \in (DOMAIN result) \X (1 .. Len(paths)) :
                              j <= Len(result[m].paths) /\ result[m].paths[j] = paths[k] }) = 1
        /\ \A m \in DOMAIN result :
              /\ result[m].id = <<"layer", m - 1>>
              /\ result[m].paths # <<>>
              /\ result[m].color = result[m].paths[1].color
              /\ \A n \in DOMAIN result :
                    m < n => PathIndex(result[m].paths[1]) < PathIndex(result[n].paths[1])
              /\ \A n \in OpenedBefore(result[m].paths[1]) :
                    ~WithinThreshold(result[m].paths[1], n)
              /\ \A j \in 2 .. Len(result[m].paths) :
                    /\ WithinThreshold(result[m].paths[j], m)
                    /\ \A n \in OpenedBefore(result[m].paths[j]) :
                          DistanceSq(result[m].paths[j].color, result[m].color)
                              <= DistanceSq(result[m].paths[j].color, result[n].color)

----------------------------------------------------------------------------
(* marchingSquares, image-processor.ts 1111-1210: the classification of a  *)
(* cell, the lookup of its segments and the interpolation of their edge    *)
(* points.  The cell (x, y) has its corners at the pixels (x, y), (x+1, y),*)
(* (x+1, y+1) and (x, y+1).                                                *)

(* edgeTable[caseIndex] is edgeTable[caseIndex + 1] here *)
edgeTable ==
    << <<>>,
       << <<3, 0>> >>,
       << <<2, 3>> >>,
       << <<2, 0>> >>,
       << <<1, 2>> >>,
       << <<1, 0>>, <<2, 3>> >>,
       << <<1, 3>> >>,
       << <<1, 0>> >>,
       << <<0, 1>> >>,
       << <<0, 3>> >>,
       << <<0, 2>>, <<1, 3>> >>,
       << <<0, 2>> >>,
       << <<3, 2>> >>,
       << <<3, 1>> >>,
       << <<2, 1>> >>,
       <<>> >>

(* getValue of getEdgePoint *)
getValue(bin, w, h, px, py) == IF InGrid(px, py, w, h) THEN bin[py * w + px] ELSE 0

(* caseIndex of the cell (x, y) *)
CaseIndex(bin, w, x, y, threshold) ==
    (IF bin[y * w + x] >= threshold THEN 1 ELSE 0)
    + (IF bin[y * w + (x + 1)] >= threshold THEN 2 ELSE 0)
    + (IF bin[(y + 1) * w + (x + 1)] >= threshold THEN 4 ELSE 0)
    + (IF bin[(y + 1) * w + x] >= threshold THEN 8 ELSE 0)

(* the two values getEdgePoint interpolates between on an edge of the cell *)
EdgeValues(bin, w, h, x, y, edge) ==
    CASE edge = 0 -> <<getValue(bin, w, h, x, y), getValue(bin, w, h, x + 1, y)>>
      [] edge = 1 -> <<getValue(bin, w, h, x + 1, y), getValue(bin, w, h, x + 1, y + 1)>>
      [] edge = 2 -> <<getValue(bin, w, h, x, y + 1), getValue(bin, w, h, x + 1, y + 1)>>
      [] edge = 3 -> <<getValue(bin, w, h, x, y), getValue(bin, w, h, x, y + 1)>>

(* the parameter t of interpolate as the ratio <<numerator, denominator>>:  *)
(* the point is the first end + t * (second end - first end), the middle    *)
(* when the two values are equal                                            *)
InterpolateT(v1, v2, threshold) ==
    IF v1 = v2 THEN <<1, 2>> ELSE <<threshold - v1, v2 - v1>>

(* Specification of the scan of marchingSquares over every image of        *)
(* MSW x 2 pixels or less, one action per cell: drawn gets, for the cell,  *)
(* its case, its segments and the interpolation on each of their edges.    *)
(* The trace started from a segment is outside this specification.         *)

MSW == 3

MSValues == {0, 100, 255}

InitMarch ==
    /\ pc = "marchingSquares:scan"
    /\ width \in 2 .. MSW
    /\ height = 2
    /\ binary \in [Cells(width, height) -> MSValues]
    /\ opts = [threshold |-> 128]
    /\ cursor = 0
    /\ drawn = <<>>
    /\ line = Idle /\ points = Idle /\ result = Idle
    /\ skeleton = Idle /\ rethinned = Idle /\ keep = Idle /\ simplified = Idle
    /\ edges = Idle /\ dist = Idle
    /\ paths = Idle /\ currentPaths = Idle /\ currentScore = Idle /\ beforeScore = Idle
    /\ iterationsUsed = 0 /\ iter = 0 /\ measured = Idle /\ applied = Idle
    /\ AccIdle /\ PostIdle /\ LibIdle

(* one iteration of the loops over the cells *)
MarchCell ==
    /\ pc = "marchingSquares:scan"
    /\ cursor < (width - 1) * (height - 1)
    /\ LET x == cursor % (width - 1)
           y == cursor \div (width - 1)
           caseIndex == CaseIndex(binary, width, x, y, opts.threshold)
           segments == IF caseIndex = 0 \/ caseIndex = 15 THEN <<>>
                       ELSE edgeTable[caseIndex + 1]
       IN  drawn' = Append(drawn,
               [x |-> x, y |-> y, caseIndex |-> caseIndex,
                segments |->
                    [k \in DOMAIN segments |->
                        [e \in 1 .. 2 |->
                            LET v == EdgeValues(binary, width, height, x, y, segments[k][e])
                            IN  [edge |-> segments[k][e], v1 |-> v[1], v2 |-> v[2],
                                 t |-> InterpolateT(v[1], v[2], opts.threshold)]]]])
    /\ cursor' = cursor + 1
    /\ UNCHANGED <<pc, line, points, result, mooreFrame>>

(* the loops end *)
MarchReturn ==
    /\ pc = "marchingSquares:scan"
    /\ cursor >= (width - 1) * (height - 1)
    /\ pc' = "marchingSquares:done"
    /\ UNCHANGED <<cursor, drawn, line, points, result, mooreFrame>>

NextMarch == MarchCell \/ MarchReturn

SpecMarch == InitMarch /\ [][NextMarch]_vars

(* one corner of the edge is at or above the threshold, the other below *)
EdgeCrossed(end) == (end.v1 >= opts.threshold) # (end.v2 >= opts.threshold)

(* 0 <= t <= 1 *)
BetweenCorners(end) ==
    IF end.t[2] > 0 THEN 0 <= end.t[1] /\ end.t[1] <= end.t[2]
    ELSE 0 >= end.t[1] /\ end.t[1] >= end.t[2]

(* C26: in each of the 16 classifications (TL = 1, TR = 2, BR = 4, BL = 8)  *)
(* every segment of the table joins two cell edges that each have one       *)
(* corner at or above the threshold and one below, so every interpolated    *)
(* crossing lies between the two corners of its edge; cases 0 and 15 give   *)
(* no segment, cases 5 and 10 give two.                                     *)
C26_SegmentsJoinCrossedEdges ==
    \A n \in DOMAIN drawn :
        /\ \A k \in DOMAIN drawn[n].segments :
              \A e \in 1 .. 2 :
                  /\ EdgeCrossed(drawn[n].segments[k][e])
                  /\ BetweenCorners(drawn[n].segments[k][e])
        /\ drawn[n].caseIndex \in {0, 15} => drawn[n].segments = <<>>
        /\ drawn[n].caseIndex \in {5, 10} => Len(drawn[n].segments) = 2

----------------------------------------------------------------------------
(* Specification of the two uses of the distance transform as a matching   *)
(* test, on every pair of masks up to NearW x NearH: a call of             *)
(* computeAccuracy (score), or a call of fillGaps (result, with measured   *)
(* its unmatchedMask).                                                     *)

NearW == 3
NearH == 2

NearTolerances == {1000, 2000, 3000}

InitNear ==
    /\ pc = "match:call"
    /\ width \in 1 .. NearW
    /\ height \in 1 .. NearH
    /\ referenceEdges \in Masks(width, height)
    /\ svgEdges \in Masks(width, height)
    /\ opts \in [distanceTolerance : NearTolerances, gapFillMinCluster : {1}]
    /\ paths = <<>>
    /\ score = Idle
    /\ result = Idle
    /\ measured = Idle
    /\ currentPaths = Idle /\ currentScore = Idle /\ beforeScore = Idle
    /\ iterationsUsed = 0 /\ iter = 0 /\ applied = Idle
    /\ DTIdle /\ DPIdle /\ ZSIdle /\ PostIdle /\ LibIdle /\ DrawIdle

nearFrame == <<width, height, referenceEdges, svgEdges, opts, paths, currentPaths,
               currentScore, beforeScore, iterationsUsed, iter, applied,
               dtVars, dpVars, zsVars, postVars, libVars, drawVars>>

CallAccuracy ==
    /\ pc = "match:call"
    /\ score' = computeAccuracy(referenceEdges, svgEdges, width, height,
                                opts.distanceTolerance)
    /\ pc' = "computeAccuracy:done"
    /\ UNCHANGED <<result, measured, nearFrame>>

CallGaps ==
    /\ pc = "match:call"
    /\ measured' = UnmatchedMask(referenceEdges,
                                 computeDistanceTransform(svgEdges, width, height),
                                 width, height, opts.distanceTolerance)
    /\ result' = fillGaps(paths, referenceEdges, svgEdges, width, height,
                          opts.gapFillMinCluster, opts.distanceTolerance)
    /\ pc' = "fillGaps:done"
    /\ UNCHANGED <<score, nearFrame>>

NextNear == CallAccuracy \/ CallGaps

SpecNear == InitNear /\ [][NextNear]_vars

(* the chamfer distance between two pixels of the grid, in thousandths *)
ChamferBetween(i, j, w) ==
    LET dx == Abs((i % w) - (j % w))
        dy == Abs((i \div w) - (j \div w))
    IN  ORTH * (Max2(dx, dy) - Min2(dx, dy)) + DIAG * Min2(dx, dy)

(* some set pixel of the mask lies within the tolerance of the pixel i *)
HasNear(mask, i) ==
    \E j \in Cells(width, height) :
        mask[j] > 0 /\ ChamferBetween(i, j, width) <= opts.distanceTolerance

SetPixels(mask) == { i \in Cells(width, height) : mask[i] > 0 }

(* C27: a rendered pixel counts as matched only if some reference pixel     *)
(* lies within the tolerance of it, and a reference pixel likewise: with no *)
(* reference pixel computeAccuracy reports svgMatched = 0 and precision 0,  *)
(* and with no rendered pixel fillGaps takes every reference pixel as       *)
(* unmatched, whatever the size and the tolerance.                          *)
C27_MatchedOnlyNearAPixel ==
    /\ pc = "computeAccuracy:done" =>
          /\ score.matchedPixels
                <= Cardinality({ i \in SetPixels(svgEdges) : HasNear(referenceEdges, i) })
          /\ SetPixels(referenceEdges) = {} =>
                score.matchedPixels = 0 /\ score.precision[1] = 0
    /\ pc = "fillGaps:done" =>
          /\ \A i \in SetPixels(referenceEdges) :
                ~HasNear(svgEdges, i) => measured[i] = 255
          /\ SetPixels(svgEdges) = {} => SetPixels(measured) = SetPixels(referenceEdges)

----------------------------------------------------------------------------
(* C28: zhangSuenThinning ends on every 0/1 grid, sets no pixel that was    *)
(* background in its input, and leaves at least one pixel of every          *)
(* 8-connected foreground component of the input in the skeleton.           *)
C28_ThinningKeepsEveryComponent ==
    pc = "zs:thinned" =>
        /\ \A i \in Cells(width, height) : skeleton[i] # 0 => binary[i] = 1
        /\ LET components == ComponentsOf({ i \in Cells(width, height) : binary[i] = 1 },
                                          width)
           IN  \A c \in DOMAIN components : \E i \in components[c] : skeleton[i] # 0

----------------------------------------------------------------------------
(* Specification of a morphClose call on every mask up to CloseW x CloseH, *)
(* with 0 to CloseMaxIterations iterations.                                *)

CloseW == 4
CloseH == 3
CloseMaxIterations == 2

InitClose ==
    /\ pc = "morphClose:call"
    /\ width \in 1 .. CloseW
    /\ height \in 1 .. CloseH
    /\ edges \in Masks(width, height)
    /\ opts \in [iterations : 0 .. CloseMaxIterations]
    /\ result = Idle
    /\ CallIdle

MorphClose ==
    /\ pc = "morphClose:call"
    /\ result' = morphClose(edges, width, height, opts.iterations)
    /\ pc' = "morphClose:done"
    /\ UNCHANGED callFrame

NextClose == MorphClose

SpecClose == InitClose /\ [][NextClose]_vars

(* C29: every pixel set in the input of morphClose is still set in its      *)
(* output, whatever the mask, the size and the iteration count, pixels next *)
(* to the image border included.                                            *)
C29_CloseKeepsLineMaterial ==
    pc = "morphClose:done" =>
        \A i \in Cells(width, height) : edges[i] > 0 => result[i] > 0

----------------------------------------------------------------------------
(* Specification of the two passes of the edge-chain detectContours on     *)
(* every mask up to ChainW x ChainH, one traced chain per step; drawn keeps *)
(* every chain traceEdgeChain returns, with the pass that traced it, before *)
(* the length filter.                                                       *)

ChainW == 4
ChainH == 3

InitChain ==
    /\ pc = "chain:pass1"
    /\ width \in 1 .. ChainW
    /\ height \in 1 .. ChainH
    /\ binary \in Masks(width, height)
    /\ cursor = [idx |-> 0, visited |-> {}]
    /\ line = Idle
    /\ points = <<>>
    /\ drawn = <<>>
    /\ result = <<>>
    /\ skeleton = Idle /\ rethinned = Idle /\ keep = Idle /\ simplified = Idle
    /\ edges = Idle /\ opts = Idle /\ dist = Idle
    /\ paths = Idle /\ currentPaths = Idle /\ currentScore = Idle /\ beforeScore = Idle
    /\ iterationsUsed = 0 /\ iter = 0 /\ measured = Idle /\ applied = Idle
    /\ AccIdle /\ PostIdle /\ LibIdle

(* the scan of a pass starts from every pixel set, visited or not *)
ChainStarts_Revisit ==
    { i \in cursor.idx .. width * height - 1 :
        /\ binary[i] # 0
        /\ pc = "chain:pass1" =>
               countEdgeNeighbors(binary, width, height, i % width, i \div width) = 1 }

(* the pixels the running pass still traces from: set, not visited and, in  *)
(* the first pass, with exactly one set neighbour                           *)
ChainStarts ==
    { i \in cursor.idx .. width * height - 1 :
        /\ binary[i] # 0
        /\ i \notin cursor.visited
        /\ pc = "chain:pass1" =>
               countEdgeNeighbors(binary, width, height, i % width, i \div width) = 1 }

(* the scan reaches its next starting pixel, traces the chain and pushes it *)
(* if it has 3 points or more                                               *)
ChainTrace ==
    /\ pc \in {"chain:pass1", "chain:pass2"}
    /\ ChainStarts # {}
    /\ LET first == SetMin(ChainStarts)
           chain == traceEdgeChain(binary, width, height, first % width, first \div width,
                                   cursor.visited, <<>>)
       IN  /\ drawn' = Append(drawn, [points |-> chain.points,
                                      pass |-> IF pc = "chain:pass1" THEN 1 ELSE 2])
           /\ result' = IF Len(chain.points) >= 3 THEN Append(result, chain.points)
                        ELSE result
           /\ cursor' = [idx |-> first + 1, visited |-> chain.visited]
    /\ UNCHANGED <<pc, line, points, mooreFrame>>

(* the scan of a pass ends: the second pass starts, or contours is returned *)
ChainPassEnd ==
    /\ pc \in {"chain:pass1", "chain:pass2"}
    /\ ChainStarts = {}
    /\ pc' = IF pc = "chain:pass1" THEN "chain:pass2" ELSE "chain:done"
    /\ cursor' = [cursor EXCEPT !.idx = 0]
    /\ UNCHANGED <<line, points, result, drawn, mooreFrame>>

NextChain == ChainTrace \/ ChainPassEnd

SpecChain == InitChain /\ [][NextChain]_vars

(* the passes, chain by chain, give the contours of the call as a whole *)
ChainStepsAgree ==
    pc = "chain:done" => result = detectEdgeChains(binary, width, height)

(* the pixel index of a point of a chain *)
ChainCell(p) == (p.y \div 2) * width + (p.x \div 2)

ChainCells(n) == { ChainCell(drawn[n].points[a]) : a \in DOMAIN drawn[n].points }

(* C30: of the chains traced (before the length filter), none repeats a     *)
(* pixel, every point is a foreground pixel 8-adjacent to the point before  *)
(* it, every chain of the first pass starts at a pixel with exactly one     *)
(* foreground 8-neighbour, none has more than width * height points and no  *)
(* two share a pixel; after the two passes every foreground pixel has been  *)
(* visited and is on a chain.                                               *)
C30_EveryEdgePixelOnOneChain ==
    /\ \A n \in DOMAIN drawn :
        LET p == drawn[n].points
        IN  /\ Len(p) >= 1 /\ Len(p) <= width * height
            /\ \A a, b \in DOMAIN p : a # b => p[a] # p[b]
            /\ \A a \in DOMAIN p :
                /\ InGrid(p[a].x \div 2, p[a].y \div 2, width, height)
                /\ p[a].x % 2 = 0 /\ p[a].y % 2 = 0
                /\ binary[ChainCell(p[a])] > 0
            /\ \A a \in 1 .. Len(p) - 1 :
                /\ p[a + 1].x - p[a].x \in {-2, 0, 2}
                /\ p[a + 1].y - p[a].y \in {-2, 0, 2}
            /\ drawn[n].pass = 1 =>
                   countEdgeNeighbors(binary, width, height,
                                      p[1].x \div 2, p[1].y \div 2) = 1
    /\ \A n, m \in DOMAIN drawn : n # m => ChainCells(n) \cap ChainCells(m) = {}
    /\ pc = "chain:done" =>
           \A i \in Cells(width, height) :
               binary[i] > 0 => /\ i \in cursor.visited
                                /\ \E n \in DOMAIN drawn : i \in ChainCells(n)

(* both passes are over, each has traced a chain, and one chain was too     *)
(* short to be pushed                                                       *)
C30_Witness ==
    /\ pc = "chain:done"
    /\ \E n, m \in DOMAIN drawn : drawn[n].pass = 1 /\ drawn[m].pass = 2
    /\ \E n \in DOMAIN drawn : Len(drawn[n].points) >= 3
    /\ Len(result) < Len(drawn)

====
